---- MODULE Spec2Model ----
(***************************************************************************)
(* Credit scoring engine of Jasho_backend/app/core/ai_credit_scoring.py:   *)
(* CreditDataProcessor (event normalizer, credit factors, risk indicators, *)
(* recommendations) and AICreditScorer (estimator loading, scoring, rating,*)
(* confidence, result cache), and pattern analysis of                      *)
(* Jasho_backend/app/core/ai_insights.py: UserPatternAnalyzer; the         *)
(* endpoint GET /ai/credit-score/{user_id} of Jasho_backend/app/main.py.   *)
(*                                                                         *)
(* Numbers.  Python floats are modelled by exact rationals [n, d] in       *)
(* lowest terms.  A value of the form std/mean is carried by its square    *)
(* cv2 = variance/mean^2 (a rational), so that the comparisons the code    *)
(* makes on it are exact.  NaN is the value NaN.  Amounts are integers.    *)
(***************************************************************************)
EXTENDS Integers, Sequences, FiniteSets, TLC

VARIABLES
    financial_data,    \* the bundle the callers pass for the user(s)
    estimator_output,  \* what a fitted estimator predicts for that bundle
    model_file,        \* models/credit_scoring_model.pkl at process start
    credit_factors,    \* CreditDataProcessor.credit_factors (the weights)
    model,             \* AICreditScorer.model
    scaler,            \* AICreditScorer.scaler: "unfitted" | "fitted"
    startup,           \* branch _load_or_create_model has taken
    cache,             \* redis db 5: "credit_score:<user_id>" -> JSON text
    returned,          \* the last call and the value it returned
    processed_data,    \* last value of process_user_financial_data
    fallback_call,     \* last direct call of _calculate_fallback_score
    calls,             \* the locals of the calculate_credit_score calls in flight
    user_data,         \* the data passed to analyze_user_patterns
    library_outcomes,  \* what linregress and IsolationForest find in user_data
    analysis_result,   \* last value of analyze_user_patterns
    analysis_cache,    \* redis db 6: "user_analysis:<user_id>" -> JSON text
    feature_vector     \* last value of _prepare_features

vars == <<financial_data, estimator_output, model_file, credit_factors, model,
          scaler, startup, cache, returned, processed_data, fallback_call,
          calls, user_data, library_outcomes, analysis_result, analysis_cache,
          feature_vector>>

-----------------------------------------------------------------------------
(* Bounds of the model *)

MaxLoans == 2
MaxPayments == 2
MaxEvents == 2

-----------------------------------------------------------------------------
(* Python values *)

None == [None |-> TRUE]
NaN == [nan |-> TRUE]

Abs(i) == IF i < 0 THEN -i ELSE i

RECURSIVE GCD(_, _)
GCD(a, b) == IF b = 0 THEN a ELSE GCD(b, a % b)

\* the rational n/d (d # 0) in lowest terms with a positive denominator
Q(n, d) ==
    LET g == GCD(Abs(n), Abs(d))
        s == IF d < 0 THEN -1 ELSE 1
    IN  [n |-> (s * n) \div g, d |-> (s * d) \div g]

I(i) == [n |-> i, d |-> 1]
QAdd(a, b) == Q(a.n * b.d + b.n * a.d, a.d * b.d)
QSub(a, b) == Q(a.n * b.d - b.n * a.d, a.d * b.d)
QMul(a, b) == Q(a.n * b.n, a.d * b.d)
QDiv(a, b) == Q(a.n * b.d, a.d * b.n)
QLt(a, b) == a.n * b.d < b.n * a.d
QLe(a, b) == a.n * b.d <= b.n * a.d
QMin(a, b) == IF QLt(b, a) THEN b ELSE a
QMax(a, b) == IF QLt(a, b) THEN b ELSE a
\* int(x): truncation toward zero
ToInt(a) == IF a.n >= 0 THEN a.n \div a.d ELSE -((-a.n) \div a.d)

\* dict.get(key, default)
Get(dict, key, default) == IF key \in DOMAIN dict THEN dict[key] ELSE default

RECURSIVE Sum(_)
Sum(xs) == IF xs = <<>> THEN 0 ELSE Head(xs) + Sum(Tail(xs))

RECURSIVE QSum(_)
QSum(qs) == IF qs = <<>> THEN I(0) ELSE QAdd(Head(qs), QSum(Tail(qs)))

\* np.mean of a non-empty list of integers / of rationals
Mean(xs) == Q(Sum(xs), Len(xs))
QMean(qs) == QDiv(QSum(qs), I(Len(qs)))

Squares(xs) == [i \in 1..Len(xs) |-> xs[i] * xs[i]]

\* (np.std(xs) / np.mean(xs))^2 for a non-empty list of non-negative integers;
\* 0.0/0.0 is nan in numpy (a warning, no exception)
Cv2(xs) ==
    IF Sum(xs) = 0 THEN NaN
    ELSE Q(Len(xs) * Sum(Squares(xs)) - Sum(xs) * Sum(xs), Sum(xs) * Sum(xs))

\* Values derived from a coefficient of variation c = sqrt(cv2):
\*   [one_minus_sqrt |-> q]  is  1 - sqrt(q)   with 0 <= q <= 1
\*   [sqrt |-> q]            is  sqrt(q)       with 0 <= q
OneMinusSqrt(q) == [one_minus_sqrt |-> q]
Sqrt(q) == [sqrt |-> q]

\* max(0, min(1, 1 - c)): min(1, nan) is 1 in Python (nan < 1 is False)
ClampStability(c2) ==
    IF c2 = NaN THEN OneMinusSqrt(I(0)) ELSE OneMinusSqrt(QMin(I(1), c2))

\* stability < t for a rational 0 <= t <= 1:  1 - sqrt(q) < t  iff  q > (1-t)^2
StabilityBelow(s, t) ==
    LET u == QSub(I(1), t) IN QLt(QMul(u, u), s.one_minus_sqrt)

\* volatility > t for a rational t >= 0; any comparison with nan is False
VolatilityAbove(v, t) == IF v = NaN THEN FALSE ELSE QLt(QMul(t, t), v.sqrt)

-----------------------------------------------------------------------------
(* CreditDataProcessor *)

\* self.credit_factors, in hundredths
W_payment_history == 35
W_credit_utilization == 30
W_credit_length == 15
W_new_credit == 10
W_credit_mix == 10

FactorNames ==
    <<"payment_history", "credit_utilization", "credit_length", "new_credit",
      "credit_mix">>

CreditFactorWeights ==
    [payment_history |-> Q(W_payment_history, 100),
     credit_utilization |-> Q(W_credit_utilization, 100),
     credit_length |-> Q(W_credit_length, 100),
     new_credit |-> Q(W_new_credit, 100),
     credit_mix |-> Q(W_credit_mix, 100)]

\* self.credit_score_ranges, in dict order
credit_score_ranges ==
    <<[rating |-> "excellent", min_score |-> 750, max_score |-> 850],
      [rating |-> "good", min_score |-> 700, max_score |-> 749],
      [rating |-> "fair", min_score |-> 650, max_score |-> 699],
      [rating |-> "poor", min_score |-> 600, max_score |-> 649],
      [rating |-> "very_poor", min_score |-> 300, max_score |-> 599]>>

\* xs[-3:] and xs[:-3]
Last3(xs) == SubSeq(xs, IF Len(xs) > 3 THEN Len(xs) - 2 ELSE 1, Len(xs))
AllButLast3(xs) == SubSeq(xs, 1, Len(xs) - 3)

_process_income_data(incomes) ==
    IF incomes = <<>>
    THEN [total_income |-> 0, income_stability |-> OneMinusSqrt(I(1)),
          income_growth |-> I(0)]
    ELSE
        LET income_stability ==
                IF Len(incomes) > 1 THEN ClampStability(Cv2(incomes))
                ELSE OneMinusSqrt(I(0))
            recent_income == Mean(Last3(incomes))
            older_income ==
                IF Len(incomes) > 3 THEN Mean(AllButLast3(incomes))
                ELSE recent_income
            income_growth ==
                IF Len(incomes) > 1 /\ QLt(I(0), older_income)
                THEN QDiv(QSub(recent_income, older_income), older_income)
                ELSE I(0)
        IN  [total_income |-> Sum(incomes),
             average_monthly_income |-> Mean(incomes),
             income_stability |-> income_stability,
             income_growth |-> income_growth,
             income_frequency |-> Len(incomes)]

_process_deposit_data(deposits) ==
    IF deposits = <<>>
    THEN [total_deposits |-> 0, deposit_consistency |-> OneMinusSqrt(I(1))]
    ELSE
        [total_deposits |-> Sum(deposits),
         average_deposit |-> Mean(deposits),
         deposit_consistency |->
             IF Len(deposits) > 1 THEN ClampStability(Cv2(deposits))
             ELSE OneMinusSqrt(I(0)),
         deposit_frequency |-> Len(deposits)]

_process_expenditure_data(expenditures) ==
    IF expenditures = <<>>
    THEN [total_expenditure |-> 0, expenditure_categories |-> <<>>]
    ELSE
        [total_expenditure |-> Sum(expenditures),
         average_expenditure |-> Mean(expenditures),
         expenditure_volatility |->
             IF Len(expenditures) > 1
             THEN (IF Cv2(expenditures) = NaN THEN NaN
                   ELSE Sqrt(Cv2(expenditures)))
             ELSE Sqrt(I(0)),
         expenditure_frequency |-> Len(expenditures)]

_process_withdrawal_data(withdrawals) ==
    IF withdrawals = <<>>
    THEN [total_withdrawals |-> 0, withdrawal_patterns |-> <<>>]
    ELSE
        [total_withdrawals |-> Sum(withdrawals),
         average_withdrawal |-> Mean(withdrawals),
         withdrawal_frequency |-> Len(withdrawals),
         withdrawal_amounts |-> withdrawals]

\* PaymentScore with a loan without payments scored 0 instead of 0.5
PaymentScore_NoHistoryZero(loan) ==
    LET payments == Get(loan, "payments", <<>>)
        on_time_payments ==
            Cardinality({i \in 1..Len(payments) :
                            Get(payments[i], "on_time", TRUE)})
    IN  IF payments # <<>> THEN Q(on_time_payments, Len(payments))
        ELSE I(0)

\* on-time payment percentage of one loan; 0.5 when it has no payments
PaymentScore(loan) ==
    LET payments == Get(loan, "payments", <<>>)
        on_time_payments ==
            Cardinality({i \in 1..Len(payments) :
                            Get(payments[i], "on_time", TRUE)})
    IN  IF payments # <<>> THEN Q(on_time_payments, Len(payments))
        ELSE Q(1, 2)

NoLoansPaymentScore == I(1)

\* _process_loan_data without the clamp of line 276
_process_loan_data_Unclamped(loans) ==
    IF loans = <<>>
    THEN [total_loans |-> 0, payment_history_score |-> NoLoansPaymentScore]
    ELSE
        LET Amount(i) == Get(loans[i], "amount", 0)
            total_loan_amount == Sum([i \in 1..Len(loans) |-> Amount(i)])
            payment_history_scores ==
                [i \in 1..Len(loans) |-> PaymentScore(loans[i])]
            total_credit_limit ==
                Sum([i \in 1..Len(loans) |->
                        Get(loans[i], "credit_limit", Amount(i))])
            loan_utilization ==
                IF total_credit_limit > 0
                THEN Q(total_loan_amount, total_credit_limit)
                ELSE I(0)
        IN  [total_loans |-> Len(loans),
             total_loan_amount |-> total_loan_amount,
             payment_history_score |-> QMean(payment_history_scores),
             loan_utilization |-> loan_utilization,
             average_loan_amount |-> Q(total_loan_amount, Len(loans)),
             active_loans |->
                 Cardinality({i \in 1..Len(loans) :
                                 Get(loans[i], "status", "") = "active"}),
             defaulted_loans |->
                 Cardinality({i \in 1..Len(loans) :
                                 Get(loans[i], "status", "") = "defaulted"})]

_process_loan_data(loans) ==
    IF loans = <<>>
    THEN [total_loans |-> 0, payment_history_score |-> NoLoansPaymentScore]
    ELSE
        LET Amount(i) == Get(loans[i], "amount", 0)
            total_loan_amount == Sum([i \in 1..Len(loans) |-> Amount(i)])
            payment_history_scores ==
                [i \in 1..Len(loans) |-> PaymentScore(loans[i])]
            total_credit_limit ==
                Sum([i \in 1..Len(loans) |->
                        Get(loans[i], "credit_limit", Amount(i))])
            loan_utilization ==
                IF total_credit_limit > 0
                THEN Q(total_loan_amount, total_credit_limit)
                ELSE I(0)
        IN  [total_loans |-> Len(loans),
             total_loan_amount |-> total_loan_amount,
             payment_history_score |-> QMean(payment_history_scores),
             loan_utilization |-> QMin(I(1), loan_utilization),
             average_loan_amount |-> Q(total_loan_amount, Len(loans)),
             active_loans |->
                 Cardinality({i \in 1..Len(loans) :
                                 Get(loans[i], "status", "") = "active"}),
             defaulted_loans |->
                 Cardinality({i \in 1..Len(loans) :
                                 Get(loans[i], "status", "") = "defaulted"})]

Factor(score, weight) ==
    [score |-> score, weight |-> weight, weighted_score |-> QMul(score, weight)]

\* _calculate_credit_factors with the payment_history weight copied to
\* credit_utilization
_calculate_credit_factors_CopiedWeight(weights, financial_metrics) ==
    LET loan_metrics == Get(financial_metrics, "loans", <<>>)
        payment_history_score ==
            Get(loan_metrics, "payment_history_score", Q(1, 2))
        loan_utilization == Get(loan_metrics, "loan_utilization", I(0))
        utilization_score == QMax(I(0), QSub(I(1), loan_utilization))
    IN  [payment_history |-> Factor(payment_history_score, weights.payment_history),
         credit_utilization |-> Factor(utilization_score, weights.payment_history),
         credit_length |-> Factor(Q(7, 10), weights.credit_length),
         new_credit |-> Factor(Q(8, 10), weights.new_credit),
         credit_mix |-> Factor(Q(6, 10), weights.credit_mix)]

_calculate_credit_factors(weights, financial_metrics) ==
    LET loan_metrics == Get(financial_metrics, "loans", <<>>)
        payment_history_score ==
            Get(loan_metrics, "payment_history_score", Q(1, 2))
        loan_utilization == Get(loan_metrics, "loan_utilization", I(0))
        utilization_score == QMax(I(0), QSub(I(1), loan_utilization))
    IN  [payment_history |-> Factor(payment_history_score, weights.payment_history),
         credit_utilization |-> Factor(utilization_score, weights.credit_utilization),
         credit_length |-> Factor(Q(7, 10), weights.credit_length),
         new_credit |-> Factor(Q(8, 10), weights.new_credit),
         credit_mix |-> Factor(Q(6, 10), weights.credit_mix)]

\* _identify_risk_indicators with the thresholds themselves flagged
_identify_risk_indicators_AtThreshold(financial_metrics) ==
    LET income_metrics == Get(financial_metrics, "income", <<>>)
        expenditure_metrics == Get(financial_metrics, "expenditure", <<>>)
        loan_metrics == Get(financial_metrics, "loans", <<>>)
        Flag(cond, type, severity) ==
            IF cond THEN <<[type |-> type, severity |-> severity]>> ELSE <<>>
    IN  Flag(QLe(Q(9, 100), Get(income_metrics, "income_stability",
                                OneMinusSqrt(I(0))).one_minus_sqrt),
             "income_instability", "medium")
        \o Flag(VolatilityAbove(Get(expenditure_metrics,
                                    "expenditure_volatility", Sqrt(I(0))),
                                Q(1, 2)),
                "expenditure_volatility", "high")
        \o Flag(Get(loan_metrics, "defaulted_loans", 0) > 0,
                "loan_defaults", "high")
        \o Flag(QLe(Q(8, 10), Get(loan_metrics, "loan_utilization", I(0))),
                "high_loan_utilization", "medium")

_identify_risk_indicators(financial_metrics) ==
    LET income_metrics == Get(financial_metrics, "income", <<>>)
        expenditure_metrics == Get(financial_metrics, "expenditure", <<>>)
        loan_metrics == Get(financial_metrics, "loans", <<>>)
        Flag(cond, type, severity) ==
            IF cond THEN <<[type |-> type, severity |-> severity]>> ELSE <<>>
    IN  Flag(StabilityBelow(Get(income_metrics, "income_stability",
                                OneMinusSqrt(I(0))), Q(7, 10)),
             "income_instability", "medium")
        \o Flag(VolatilityAbove(Get(expenditure_metrics,
                                    "expenditure_volatility", Sqrt(I(0))),
                                Q(1, 2)),
                "expenditure_volatility", "high")
        \o Flag(Get(loan_metrics, "defaulted_loans", 0) > 0,
                "loan_defaults", "high")
        \o Flag(QLt(Q(8, 10), Get(loan_metrics, "loan_utilization", I(0))),
                "high_loan_utilization", "medium")

\* _generate_credit_recommendations with the credit_utilization entry appended
\* before the payment_history entry
_generate_credit_recommendations_UtilizationFirst(processed) ==
    LET factors == Get(processed, "credit_factors", <<>>)
        payment_history_score ==
            Get(Get(factors, "payment_history", <<>>), "score", Q(1, 2))
        utilization_score ==
            Get(Get(factors, "credit_utilization", <<>>), "score", Q(1, 2))
        income_metrics ==
            Get(Get(processed, "financial_metrics", <<>>), "income", <<>>)
        Rec(cond, category, priority) ==
            IF cond THEN <<[category |-> category, priority |-> priority]>>
            ELSE <<>>
    IN  Rec(QLt(utilization_score, Q(7, 10)), "credit_utilization", "medium")
        \o Rec(QLt(payment_history_score, Q(8, 10)), "payment_history", "high")
        \o Rec(StabilityBelow(Get(income_metrics, "income_stability",
                                  OneMinusSqrt(I(0))), Q(7, 10)),
               "income_stability", "medium")

_generate_credit_recommendations(processed) ==
    LET factors == Get(processed, "credit_factors", <<>>)
        payment_history_score ==
            Get(Get(factors, "payment_history", <<>>), "score", Q(1, 2))
        utilization_score ==
            Get(Get(factors, "credit_utilization", <<>>), "score", Q(1, 2))
        income_metrics ==
            Get(Get(processed, "financial_metrics", <<>>), "income", <<>>)
        Rec(cond, category, priority) ==
            IF cond THEN <<[category |-> category, priority |-> priority]>>
            ELSE <<>>
    IN  Rec(QLt(payment_history_score, Q(8, 10)), "payment_history", "high")
        \o Rec(QLt(utilization_score, Q(7, 10)), "credit_utilization", "medium")
        \o Rec(StabilityBelow(Get(income_metrics, "income_stability",
                                  OneMinusSqrt(I(0))), Q(7, 10)),
               "income_stability", "medium")

process_user_financial_data(weights, user_id, data) ==
    LET financial_metrics ==
            [income |-> _process_income_data(Get(data, "incomes", <<>>)),
             deposits |-> _process_deposit_data(Get(data, "deposits", <<>>)),
             expenditure |->
                 _process_expenditure_data(Get(data, "expenditures", <<>>)),
             withdrawals |->
                 _process_withdrawal_data(Get(data, "withdrawals", <<>>)),
             loans |-> _process_loan_data(Get(data, "loans", <<>>))]
        factors == _calculate_credit_factors(weights, financial_metrics)
        risk_indicators == _identify_risk_indicators(financial_metrics)
        partial ==
            [user_id |-> user_id, credit_factors |-> factors,
             financial_metrics |-> financial_metrics,
             risk_indicators |-> risk_indicators, recommendations |-> <<>>]
    IN  [partial EXCEPT
            !.recommendations = _generate_credit_recommendations(partial)]

-----------------------------------------------------------------------------
(* AICreditScorer *)

Error(message) == [error |-> message]

_prepare_features(processed) ==
    LET factors == Get(processed, "credit_factors", <<>>)
        financial_metrics == Get(processed, "financial_metrics", <<>>)
        Score(name) == Get(Get(factors, name, <<>>), "score", Q(1, 2))
        loans == Get(financial_metrics, "loans", <<>>)
    IN  <<Score("payment_history"),
          Score("credit_utilization"),
          Score("credit_length"),
          Score("new_credit"),
          Score("credit_mix"),
          Get(Get(financial_metrics, "income", <<>>), "income_stability",
              OneMinusSqrt(Q(1, 4))),
          Get(Get(financial_metrics, "expenditure", <<>>),
              "expenditure_volatility", Sqrt(Q(1, 4))),
          Get(loans, "loan_utilization", Q(1, 2)),
          I(Get(loans, "defaulted_loans", 0)),
          I(Get(loans, "active_loans", 0))>>

\* the factors that carry a weighted_score, in dict order
WeightedFactors(factors) ==
    SelectSeq(FactorNames,
              LAMBDA name : name \in DOMAIN factors
                            /\ "weighted_score" \in DOMAIN factors[name])

\* _calculate_fallback_score scaling by 500 instead of 550
_calculate_fallback_score_Scale500(processed) ==
    LET factors == Get(processed, "credit_factors", <<>>)
        names == WeightedFactors(factors)
        weighted_score ==
            QSum([i \in 1..Len(names) |-> factors[names[i]].weighted_score])
        total_weight ==
            QSum([i \in 1..Len(names) |-> factors[names[i]].weight])
    IN  IF QLt(I(0), total_weight)
        THEN QAdd(I(300), QMul(QDiv(weighted_score, total_weight), I(500)))
        ELSE I(600)

\* _calculate_fallback_score that scores only inputs carrying financial
\* metrics
_calculate_fallback_score_NeedsMetrics(processed) ==
    LET factors == Get(processed, "credit_factors", <<>>)
        names == WeightedFactors(factors)
        weighted_score ==
            QSum([i \in 1..Len(names) |-> factors[names[i]].weighted_score])
        total_weight ==
            QSum([i \in 1..Len(names) |-> factors[names[i]].weight])
    IN  IF QLt(I(0), total_weight) /\ "financial_metrics" \in DOMAIN processed
        THEN QAdd(I(300), QMul(QDiv(weighted_score, total_weight), I(550)))
        ELSE I(600)

_calculate_fallback_score(processed) ==
    LET factors == Get(processed, "credit_factors", <<>>)
        names == WeightedFactors(factors)
        weighted_score ==
            QSum([i \in 1..Len(names) |-> factors[names[i]].weighted_score])
        total_weight ==
            QSum([i \in 1..Len(names) |-> factors[names[i]].weight])
    IN  IF QLt(I(0), total_weight)
        THEN QAdd(I(300), QMul(QDiv(weighted_score, total_weight), I(550)))
        ELSE I(600)

RECURSIVE FirstBand(_, _)
FirstBand(ranges, credit_score) ==
    IF ranges = <<>> THEN "fair"
    ELSE IF QLe(I(Head(ranges).min_score), credit_score)
            /\ QLe(credit_score, I(Head(ranges).max_score))
         THEN Head(ranges).rating
         ELSE FirstBand(Tail(ranges), credit_score)

_determine_credit_rating(credit_score) ==
    FirstBand(credit_score_ranges, credit_score)

MetricTypes == <<"income", "deposits", "expenditure", "withdrawals", "loans">>

_calculate_confidence_score(processed) ==
    LET financial_metrics == Get(processed, "financial_metrics", <<>>)
        present ==
            {i \in 1..Len(MetricTypes) :
                DOMAIN Get(financial_metrics, MetricTypes[i], <<>>) # {}}
        data_completeness == QMul(Q(2, 10), I(Cardinality(present)))
    IN  QMean(<<data_completeness, Q(8, 10), Q(7, 10)>>)

\* ClampScore without the upper limit
ClampScore_NoUpperLimit(predicted_score) == QMax(I(300), predicted_score)

\* max(300, min(850, predicted_score))
ClampScore(predicted_score) == QMax(I(300), QMin(I(850), predicted_score))

HasNaN(features) == \E i \in 1..Len(features) : features[i] = NaN

\* The outcome of lines 588-593: the predicted score, or the exception raised.
\*   model None: the fallback formula;
\*   an unfitted GradientBoostingRegressor: its truth test (len of the missing
\*     estimators_) or its predict raises;
\*   an unfitted StandardScaler: transform raises NotFittedError;
\*   a fitted estimator: predict rejects NaN features, else returns its output.
PredictScore(mdl, sclr, processed, output) ==
    IF mdl = "None" THEN _calculate_fallback_score(processed)
    ELSE IF mdl = "unfitted" THEN Error("estimator is not fitted")
    ELSE IF sclr = "unfitted" THEN Error("scaler is not fitted")
    ELSE IF HasNaN(_prepare_features(processed)) THEN Error("input contains NaN")
    ELSE output

\* the value calculate_credit_score returns (before the cache write)
ScoreResult(weights, mdl, sclr, user_id, data, output) ==
    LET processed == process_user_financial_data(weights, user_id, data)
        predicted == PredictScore(mdl, sclr, processed, output)
        predicted_score == ClampScore(predicted)
    IN  IF "error" \in DOMAIN processed THEN processed
        ELSE IF "error" \in DOMAIN predicted THEN predicted
        ELSE [user_id |-> user_id,
              credit_score |-> ToInt(predicted_score),
              credit_rating |-> _determine_credit_rating(predicted_score),
              confidence_score |-> _calculate_confidence_score(processed),
              credit_factors |-> Get(processed, "credit_factors", <<>>),
              risk_indicators |-> Get(processed, "risk_indicators", <<>>),
              recommendations |-> Get(processed, "recommendations", <<>>),
              model_version |-> "1.0"]

\* json.dumps / json.loads of a result
JsonDumps(value) == [json |-> value]
JsonLoads(text) == text.json

-----------------------------------------------------------------------------
(* Inputs *)

Users == {"u1", "u2"}

\* amounts (in thousands); 7 and 13 differ by 0.3 of their sum, 7 and 21 by 0.5
Amounts == {0, 7, 13, 21}

SeqsUpTo(S, n) == UNION {[1..k -> S] : k \in 0..n}

EventLists == SeqsUpTo(Amounts, MaxEvents)

\* twelve monthly incomes averaging 15 (thousand)
MonthlyIncomes ==
    {[i \in 1..12 |-> 15], [i \in 1..12 |-> IF i % 2 = 0 THEN 14 ELSE 16]}

\* four incomes, the last three of them being the recent ones of line 122
QuarterIncomes == [1..4 -> {7, 21}]

Payments == {[amount |-> 1, on_time |-> TRUE], [amount |-> 1, on_time |-> FALSE],
             [amount |-> 1]}

\* loan records that differ in their terms and status
TermLoans ==
    {[amount |-> a, status |-> "active", payments |-> <<>>] : a \in {0, 400, 500}}
    \cup {[amount |-> a, credit_limit |-> c, status |-> "active",
           payments |-> <<>>] : a \in {0, 400, 500}, c \in {0, 400, 500}}
    \cup {[amount |-> 400, status |-> st, payments |-> <<>>] :
             st \in {"closed", "defaulted"}}

\* loan records that differ in their payment history
PaymentLoans ==
    {[amount |-> 400, status |-> "active", payments |-> ps] :
        ps \in SeqsUpTo(Payments, MaxPayments)}

LoanLists == SeqsUpTo(TermLoans, MaxLoans) \cup SeqsUpTo(PaymentLoans, MaxLoans)

EmptyBundle ==
    [incomes |-> <<>>, deposits |-> <<>>, expenditures |-> <<>>,
     withdrawals |-> <<>>, loans |-> <<>>]

\* every category empty or holding a fixed sample
MixedBundles ==
    [incomes : {<<>>, <<7, 13>>}, deposits : {<<>>, <<13>>},
     expenditures : {<<>>, <<7, 21, 21>>}, withdrawals : {<<>>, <<7>>},
     loans : {<<>>, <<[amount |-> 400, credit_limit |-> 500,
                       status |-> "active",
                       payments |-> <<[amount |-> 1, on_time |-> TRUE]>>]>>}]

\* one category varies, the others are empty
Bundles ==
    MixedBundles
    \cup {[EmptyBundle EXCEPT !.incomes = xs] :
             xs \in EventLists \cup MonthlyIncomes \cup QuarterIncomes}
    \cup {[EmptyBundle EXCEPT !.deposits = xs] : xs \in EventLists}
    \cup {[EmptyBundle EXCEPT !.expenditures = xs] : xs \in EventLists}
    \cup {[EmptyBundle EXCEPT !.withdrawals = xs] : xs \in EventLists}
    \cup {[EmptyBundle EXCEPT !.loans = ls] : ls \in LoanLists}

\* every category holding its sample
FullBundle ==
    CHOOSE b \in MixedBundles :
        /\ b.incomes # <<>> /\ b.deposits # <<>> /\ b.expenditures # <<>>
        /\ b.withdrawals # <<>> /\ b.loans # <<>>

\* the bundles the service is exercised with: no data, data in every
\* category, the monthly incomes, all-zero expenditures, one loan
ServiceBundles ==
    {EmptyBundle, FullBundle}
    \cup {b \in Bundles \ MixedBundles :
            \/ b.incomes \in MonthlyIncomes
            \/ b.expenditures = <<0, 0>>
            \/ /\ Len(b.loans) = 1
               /\ b.loans[1] \in PaymentLoans
               /\ Len(b.loans[1].payments) <= 1}

\* raw predictions of the estimator: below, on and above the range, on the
\* band edges and in the gaps between the integer bands
Predictions ==
    {Q(k, 2) : k \in {500, 600, 1199, 1299, 1399, 1499, 1500, 1700, 1801}}

\* outcomes of _create_training_model
TrainOutcomes == {"trained", "failed_before_scaler_fit", "failed_after_scaler_fit"}

-----------------------------------------------------------------------------
(* State machine *)

NoCall == [op |-> "none"]

\* AICreditScorer.__init__ up to the call of _load_or_create_model
InitScorer ==
    /\ credit_factors = CreditFactorWeights
    /\ model = "None"
    /\ scaler = "unfitted"
    /\ startup = "pending"
    /\ cache = [u \in Users |-> None]
    /\ returned = NoCall
    /\ processed_data = None
    /\ fallback_call = None
    /\ feature_vector = None

\* no call of calculate_credit_score in flight, no pattern analysis requested
NoCalls == calls = <<>>
NoAnalysis ==
    /\ user_data = None
    /\ library_outcomes = None
    /\ analysis_result = None
    /\ analysis_cache = [u \in Users |-> None]

Init ==
    /\ financial_data \in ServiceBundles
    /\ estimator_output \in Predictions
    /\ model_file \in {"absent", "valid", "unloadable"}
    /\ InitScorer
    /\ NoCalls
    /\ NoAnalysis

\* _create_training_model: the scaler is fitted at line 491, the model at 502;
\* any exception replaces the model by an unfitted regressor (line 517)
_create_training_model(outcome) ==
    /\ model' = IF outcome = "trained" THEN "trained" ELSE "unfitted"
    /\ scaler' = IF outcome = "failed_before_scaler_fit" THEN scaler ELSE "fitted"
    /\ model_file' = IF outcome = "trained" THEN "valid" ELSE model_file

\* _load_or_create_model whose except branch creates no estimator
_load_or_create_model_NoRetrain ==
    /\ startup = "pending"
    /\ \/ /\ model_file = "valid"
          /\ model' = "loaded"
          /\ startup' = "loaded"
          /\ UNCHANGED <<scaler, model_file>>
       \/ /\ model_file = "absent"
          /\ startup' = "created"
          /\ \E outcome \in TrainOutcomes : _create_training_model(outcome)
       \/ /\ model_file = "unloadable"
          /\ startup' = "load_failed"
          /\ UNCHANGED <<model, scaler, model_file>>
    /\ UNCHANGED <<financial_data, estimator_output, credit_factors, cache,
                   returned, processed_data, fallback_call>>
    /\ UNCHANGED <<calls, user_data, library_outcomes, analysis_result,
                   analysis_cache, feature_vector>>

_load_or_create_model ==
    /\ startup = "pending"
    /\ \/ /\ model_file = "valid"
          /\ model' = "loaded"
          /\ startup' = "loaded"
          /\ UNCHANGED <<scaler, model_file>>
       \/ /\ model_file = "absent"
          /\ startup' = "created"
          /\ \E outcome \in TrainOutcomes : _create_training_model(outcome)
       \/ /\ model_file = "unloadable"
          /\ startup' = "load_failed"
          /\ \E outcome \in TrainOutcomes : _create_training_model(outcome)
    /\ UNCHANGED <<financial_data, estimator_output, credit_factors, cache,
                   returned, processed_data, fallback_call>>
    /\ UNCHANGED <<calls, user_data, library_outcomes, analysis_result,
                   analysis_cache, feature_vector>>

\* _cache_credit_score writing every result under the key of one user
_cache_credit_score_OneKey(user_id, result, redis_up) ==
    cache' = IF redis_up THEN [cache EXCEPT !["u1"] = JsonDumps(result)]
             ELSE cache

\* _cache_credit_score: setex of the JSON text; a failure is logged and dropped
_cache_credit_score(user_id, result, redis_up) ==
    cache' = IF redis_up THEN [cache EXCEPT ![user_id] = JsonDumps(result)]
             ELSE cache

\* calculate_credit_score with a failure of the cache write propagated to the
\* outer except of line 621
calculate_credit_score_CacheErrorPropagates(user_id) ==
    /\ startup # "pending"
    /\ \E result \in {ScoreResult(credit_factors, model, scaler, user_id,
                                  financial_data, estimator_output)} :
           IF "error" \in DOMAIN result
           THEN /\ returned' = [op |-> "calculate_credit_score",
                                user_id |-> user_id, value |-> result,
                                cache_write |-> "none"]
                /\ cache' = cache
           ELSE \E redis_up \in BOOLEAN :
                    /\ _cache_credit_score(user_id, result, redis_up)
                    /\ returned' =
                           [op |-> "calculate_credit_score",
                            user_id |-> user_id,
                            value |-> IF redis_up THEN result
                                      ELSE Error("cache write failed"),
                            cache_write |-> IF redis_up THEN "ok" ELSE "failed"]
    /\ UNCHANGED <<financial_data, estimator_output, model_file, credit_factors,
                   model, scaler, startup, processed_data, fallback_call>>
    /\ UNCHANGED <<calls, user_data, library_outcomes, analysis_result,
                   analysis_cache, feature_vector>>

\* cache_write records what became of the setex of line 616: "ok", "failed"
\* (the exception is caught inside _cache_credit_score), or "none" when the
\* call left through the outer except before reaching it
calculate_credit_score(user_id) ==
    /\ startup # "pending"
    /\ \E result \in {ScoreResult(credit_factors, model, scaler, user_id,
                                  financial_data, estimator_output)} :
           IF "error" \in DOMAIN result
           THEN /\ returned' = [op |-> "calculate_credit_score",
                                user_id |-> user_id, value |-> result,
                                cache_write |-> "none"]
                /\ cache' = cache
           ELSE \E redis_up \in BOOLEAN :
                    /\ _cache_credit_score(user_id, result, redis_up)
                    /\ returned' =
                           [op |-> "calculate_credit_score",
                            user_id |-> user_id, value |-> result,
                            cache_write |-> IF redis_up THEN "ok" ELSE "failed"]
    /\ UNCHANGED <<financial_data, estimator_output, model_file, credit_factors,
                   model, scaler, startup, processed_data, fallback_call>>
    /\ UNCHANGED <<calls, user_data, library_outcomes, analysis_result,
                   analysis_cache, feature_vector>>

get_credit_score(user_id) ==
    /\ startup # "pending"
    /\ \E redis_up \in BOOLEAN :
           returned' = [op |-> "get_credit_score", user_id |-> user_id,
                        value |-> IF redis_up /\ cache[user_id] # None
                                  THEN JsonLoads(cache[user_id]) ELSE None]
    /\ UNCHANGED <<financial_data, estimator_output, model_file, credit_factors,
                   model, scaler, startup, cache, processed_data, fallback_call>>
    /\ UNCHANGED <<calls, user_data, library_outcomes, analysis_result,
                   analysis_cache, feature_vector>>

\* fastapi.HTTPException
HTTPException(status_code, detail) ==
    [status_code |-> status_code, detail |-> detail]

\* the response of GET /ai/credit-score/{user_id} (main.py) for the value
\* ai_credit_scorer.get_credit_score returned: the HTTPException of line 394
\* is raised inside the try block and HTTPException is an Exception, so the
\* handler of line 401 catches it and raises the one of line 403
EndpointResponse(credit_score) ==
    LET raised_in_try ==
            IF credit_score = None
            THEN HTTPException(404, "Credit score not found")
            ELSE None
    IN  IF raised_in_try # None
        THEN HTTPException(500, "Credit score retrieval failed")
        ELSE [status_code |-> 200, success |-> TRUE,
              credit_score |-> credit_score]

\* GET /ai/credit-score/{user_id} for an authenticated caller; retrieved is
\* the value of AICreditScorer.get_credit_score, which catches every
\* exception of the lookup itself (line 729) and so never raises
get_credit_score_endpoint(user_id) ==
    /\ startup # "pending"
    /\ \E redis_up \in BOOLEAN :
           \E credit_score \in {IF redis_up /\ cache[user_id] # None
                                 THEN JsonLoads(cache[user_id]) ELSE None} :
               returned' = [op |-> "GET /ai/credit-score/{user_id}",
                            user_id |-> user_id,
                            retrieved |-> credit_score,
                            retrieval_raised |-> FALSE,
                            value |-> EndpointResponse(credit_score)]
    /\ UNCHANGED <<financial_data, estimator_output, model_file, credit_factors,
                   model, scaler, startup, cache, processed_data, fallback_call>>
    /\ UNCHANGED <<calls, user_data, library_outcomes, analysis_result,
                   analysis_cache, feature_vector>>

\* update_model that retrains and installs a new estimator
update_model_Retrains ==
    /\ startup # "pending"
    /\ returned' = [op |-> "update_model", value |-> None]
    /\ model' = "trained"
    /\ scaler' = "fitted"
    /\ UNCHANGED <<financial_data, estimator_output, model_file, credit_factors,
                   startup, cache, processed_data, fallback_call>>
    /\ UNCHANGED <<calls, user_data, library_outcomes, analysis_result,
                   analysis_cache, feature_vector>>

update_model ==
    /\ startup # "pending"
    /\ returned' = [op |-> "update_model", value |-> None]
    /\ UNCHANGED <<financial_data, estimator_output, model_file, credit_factors,
                   model, scaler, startup, cache, processed_data, fallback_call>>
    /\ UNCHANGED <<calls, user_data, library_outcomes, analysis_result,
                   analysis_cache, feature_vector>>

\* the 24 hour TTL of a cache entry runs out
CacheExpire(user_id) ==
    /\ cache[user_id] # None
    /\ cache' = [cache EXCEPT ![user_id] = None]
    /\ UNCHANGED <<financial_data, estimator_output, model_file, credit_factors,
                   model, scaler, startup, returned, processed_data,
                   fallback_call>>
    /\ UNCHANGED <<calls, user_data, library_outcomes, analysis_result,
                   analysis_cache, feature_vector>>

Next ==
    \/ _load_or_create_model
    \/ \E u \in Users : calculate_credit_score(u)
    \/ \E u \in Users : get_credit_score(u)
    \/ \E u \in Users : get_credit_score_endpoint(u)
    \/ update_model
    \/ \E u \in Users : CacheExpire(u)

Spec == Init /\ [][Next]_vars

-----------------------------------------------------------------------------
(* The data pipeline, called directly *)

\* processed data without credit factors (line 340, line 653)
NoFactorsData == [user_id |-> "u1", credit_factors |-> <<>>]

InitData ==
    /\ financial_data \in Bundles
    /\ estimator_output = None
    /\ model_file = "absent"
    /\ InitScorer
    /\ NoCalls
    /\ NoAnalysis

CallProcess(user_id) ==
    /\ processed_data' =
           process_user_financial_data(credit_factors, user_id, financial_data)
    /\ UNCHANGED <<financial_data, estimator_output, model_file, credit_factors,
                   model, scaler, startup, cache, returned, fallback_call>>
    /\ UNCHANGED <<calls, user_data, library_outcomes, analysis_result,
                   analysis_cache, feature_vector>>

\* the inputs _calculate_fallback_score is called with: the processed data,
\* its credit factors alone, and data without credit factors
FallbackInputs ==
    IF processed_data = None THEN {NoFactorsData}
    ELSE {processed_data, NoFactorsData,
          [credit_factors |-> processed_data.credit_factors]}

\* _calculate_fallback_score and the clamp and rating of lines 596-599;
\* previous keeps the input and score of the call before
CallFallbackScore ==
    /\ \E input \in FallbackInputs :
          LET score == _calculate_fallback_score(input)
          IN  fallback_call' =
                  [input |-> input, score |-> score,
                   credit_score |-> ToInt(ClampScore(score)),
                   credit_rating |-> _determine_credit_rating(ClampScore(score)),
                   previous |->
                       IF fallback_call = None THEN None
                       ELSE [input |-> fallback_call.input,
                             score |-> fallback_call.score]]
    /\ UNCHANGED <<financial_data, estimator_output, model_file, credit_factors,
                   model, scaler, startup, cache, returned, processed_data>>
    /\ UNCHANGED <<calls, user_data, library_outcomes, analysis_result,
                   analysis_cache, feature_vector>>

\* _prepare_features on the processed data of the request (line 585)
CallPrepareFeatures ==
    /\ processed_data # None
    /\ feature_vector' = _prepare_features(processed_data)
    /\ UNCHANGED <<financial_data, estimator_output, model_file, credit_factors,
                   model, scaler, startup, cache, returned, processed_data,
                   fallback_call>>
    /\ UNCHANGED <<calls, user_data, library_outcomes, analysis_result,
                   analysis_cache>>

NextData ==
    \/ CallProcess("u1")
    \/ CallFallbackScore
    \/ CallPrepareFeatures

SpecData == InitData /\ [][NextData]_vars

-----------------------------------------------------------------------------
(* Concurrent calls of calculate_credit_score on the global ai_credit_scorer. *)
(* Each call has its own locals (user_id, financial_data, processed_data,    *)
(* predicted_score, result); a step is one of the statements of lines       *)
(* 579-619 that touch the scorer, the processor or the cache.               *)

CallIds == {1, 2}

\* the bundles the concurrent callers pass
ConcBundles == {EmptyBundle, FullBundle}

IdleCall ==
    [pc |-> "idle", user_id |-> None, financial_data |-> None,
     processed_data |-> None, predicted_score |-> None, result |-> None,
     returned |-> None, concurrent |-> FALSE]

InFlight(c) == calls[c].pc \notin {"idle", "done"}

\* a fitted estimator is a function of the features: one prediction a bundle
InitConc ==
    /\ financial_data = None
    /\ estimator_output \in
           {[b \in ConcBundles |-> IF b = EmptyBundle THEN I(600) ELSE I(710)],
            [b \in ConcBundles |-> IF b = EmptyBundle THEN Q(1499, 2) ELSE I(900)]}
    /\ model_file \in {"absent", "valid", "unloadable"}
    /\ InitScorer
    /\ calls = [c \in CallIds |-> IdleCall]
    /\ NoAnalysis

\* a caller enters calculate_credit_score; concurrent records whether another
\* call was in flight at that moment
StartCall(c, user_id, data) ==
    /\ startup # "pending"
    /\ calls[c].pc = "idle"
    /\ calls' = [calls EXCEPT
                    ![c] = [IdleCall EXCEPT
                               !.pc = "line579", !.user_id = user_id,
                               !.financial_data = data,
                               !.concurrent =
                                   \E d \in CallIds \ {c} : InFlight(d)]]
    /\ UNCHANGED <<financial_data, estimator_output, model_file, credit_factors,
                   model, scaler, startup, cache, returned, processed_data,
                   fallback_call, user_data, library_outcomes,
                   analysis_result, analysis_cache, feature_vector>>

\* ProcessData keeping the processed data in a buffer shared by the calls in
\* flight
ProcessData_SharedBuffer(c) ==
    /\ calls[c].pc = "line579"
    /\ \E processed \in {process_user_financial_data(
                              credit_factors, calls[c].user_id,
                              calls[c].financial_data)} :
           calls' = [d \in CallIds |->
                        IF d = c
                        THEN [calls[c] EXCEPT !.pc = "line585",
                                              !.processed_data = processed]
                        ELSE IF calls[d].pc \in {"line585", "line599"}
                        THEN [calls[d] EXCEPT !.processed_data = processed]
                        ELSE calls[d]]
    /\ UNCHANGED <<financial_data, estimator_output, model_file, credit_factors,
                   model, scaler, startup, cache, returned, processed_data,
                   fallback_call, user_data, library_outcomes,
                   analysis_result, analysis_cache, feature_vector>>

\* lines 579-582: reads the weights of the processor
ProcessData(c) ==
    /\ calls[c].pc = "line579"
    /\ \E processed \in {process_user_financial_data(
                              credit_factors, calls[c].user_id,
                              calls[c].financial_data)} :
           calls' = [calls EXCEPT
                        ![c] = IF "error" \in DOMAIN processed
                               THEN [@ EXCEPT !.pc = "done",
                                              !.returned = processed]
                               ELSE [@ EXCEPT !.pc = "line585",
                                              !.processed_data = processed]]
    /\ UNCHANGED <<financial_data, estimator_output, model_file, credit_factors,
                   model, scaler, startup, cache, returned, processed_data,
                   fallback_call, user_data, library_outcomes,
                   analysis_result, analysis_cache, feature_vector>>

\* lines 585-596: reads the estimator and the scaler
Predict(c) ==
    /\ calls[c].pc = "line585"
    /\ \E predicted \in {PredictScore(model, scaler, calls[c].processed_data,
                                      estimator_output[calls[c].financial_data])} :
           calls' = [calls EXCEPT
                        ![c] = IF "error" \in DOMAIN predicted
                               THEN [@ EXCEPT !.pc = "done",
                                              !.returned = predicted]
                               ELSE [@ EXCEPT !.pc = "line599",
                                              !.predicted_score =
                                                  ClampScore(predicted)]]
    /\ UNCHANGED <<financial_data, estimator_output, model_file, credit_factors,
                   model, scaler, startup, cache, returned, processed_data,
                   fallback_call, user_data, library_outcomes,
                   analysis_result, analysis_cache, feature_vector>>

\* lines 599-613: the result is built from the locals of the call
BuildResult(c) ==
    /\ calls[c].pc = "line599"
    /\ calls' = [calls EXCEPT
                    ![c] = [@ EXCEPT
                       !.pc = "line616",
                       !.result =
                           [user_id |-> calls[c].user_id,
                            credit_score |-> ToInt(calls[c].predicted_score),
                            credit_rating |->
                                _determine_credit_rating(calls[c].predicted_score),
                            confidence_score |->
                                _calculate_confidence_score(calls[c].processed_data),
                            credit_factors |->
                                Get(calls[c].processed_data, "credit_factors", <<>>),
                            risk_indicators |->
                                Get(calls[c].processed_data, "risk_indicators", <<>>),
                            recommendations |->
                                Get(calls[c].processed_data, "recommendations", <<>>),
                            model_version |-> "1.0"]]]
    /\ UNCHANGED <<financial_data, estimator_output, model_file, credit_factors,
                   model, scaler, startup, cache, returned, processed_data,
                   fallback_call, user_data, library_outcomes,
                   analysis_result, analysis_cache, feature_vector>>

\* lines 616-619: the cache entry of the user is written, the result returned
CacheAndReturn(c) ==
    /\ calls[c].pc = "line616"
    /\ \E redis_up \in BOOLEAN :
           _cache_credit_score(calls[c].user_id, calls[c].result, redis_up)
    /\ calls' = [calls EXCEPT ![c] = [@ EXCEPT !.pc = "done",
                                               !.returned = calls[c].result]]
    /\ UNCHANGED <<financial_data, estimator_output, model_file, credit_factors,
                   model, scaler, startup, returned, processed_data,
                   fallback_call, user_data, library_outcomes,
                   analysis_result, analysis_cache, feature_vector>>

\* the global instance is constructed (line 750) before any call is served
NextConc ==
    \/ _load_or_create_model
    \/ \E c \in CallIds, u \in Users, data \in ConcBundles : StartCall(c, u, data)
    \/ \E c \in CallIds : ProcessData(c)
    \/ \E c \in CallIds : Predict(c)
    \/ \E c \in CallIds : BuildResult(c)
    \/ \E c \in CallIds : CacheAndReturn(c)

SpecConc == InitConc /\ [][NextConc]_vars

-----------------------------------------------------------------------------
(* UserPatternAnalyzer of Jasho_backend/app/core/ai_insights.py.            *)
(* An event is a record with an integer amount, a date (the day of a        *)
(* non-leap year, 1..365) and, for expenditures, an optional category.      *)
(* A DataFrame is the sequence of its rows.  Two library results are not    *)
(* computed but supplied to the analysis as outcomes: whether linregress    *)
(* reports p < 0.05 for a series that is neither flat nor exactly linear,   *)
(* and which rows IsolationForest labels -1.                                *)

min_data_points == 10

\* the month (1..12) of a day of the year
MonthOf(day) ==
    LET ends == <<31, 59, 90, 120, 151, 181, 212, 243, 273, 304, 334, 365>>
    IN  CHOOSE m \in 1..12 :
            /\ day <= ends[m]
            /\ m > 1 => day > ends[m - 1]

\* pd.DataFrame(events) with rows sorted by date (dates of a list differ)
SortByDate(events) ==
    SortSeq(events, LAMBDA a, b : a.date < b.date)

AmountsOf(df) == [i \in 1..Len(df) |-> df[i].amount]

\* Series.std() of pandas (ddof = 1) divided by the mean, squared; nan for a
\* single value
SampleCv2(xs) ==
    IF Len(xs) < 2 THEN NaN
    ELSE Q(Len(xs) * (Len(xs) * Sum(Squares(xs)) - Sum(xs) * Sum(xs)),
           (Len(xs) - 1) * Sum(xs) * Sum(xs))

\* the least-squares line of values over x = 0, 1, ..., n-1 (linregress):
\* slope = sxy / sxx, intercept = mean(y) - slope * mean(x)
Sxy(values) ==
    LET n == Len(values)
    IN  n * Sum([i \in 1..n |-> (i - 1) * values[i]])
            - Sum([i \in 1..n |-> i - 1]) * Sum(values)

Sxx(n) == n * Sum([i \in 1..n |-> (i - 1) * (i - 1)])
              - Sum([i \in 1..n |-> i - 1]) * Sum([i \in 1..n |-> i - 1])

Slope(values) == Q(Sxy(values), Sxx(Len(values)))

Intercept(values) ==
    QSub(Mean(values),
         QMul(Slope(values), Q(Len(values) - 1, 2)))

\* the outcomes of the test p_value < 0.05 of linregress: a series without
\* linear correlation has p = 1, an exactly linear one p = 0
SignificanceOutcomes(values) ==
    IF Sxy(values) = 0 THEN {FALSE}
    ELSE IF \A i \in 2..(Len(values) - 1) :
                values[i + 1] - values[i] = values[i] - values[i - 1]
         THEN {TRUE}
         ELSE BOOLEAN

\* _analyze_trend; the regression statistics r_squared, p_value and strength
\* are carried by the symbol "abs(r_value)" where a later step copies them
_analyze_trend(values, significant) ==
    IF Len(values) < 3 THEN [trend |-> "insufficient_data"]
    ELSE [direction |->
              IF significant
              THEN (IF QLt(I(0), Slope(values)) THEN "increasing"
                    ELSE "decreasing")
              ELSE "stable",
          slope |-> Slope(values),
          strength |-> "abs(r_value)"]

\* Series.std() of pandas (ddof = 1), squared, of a list of rationals
QSampleVariance(qs) ==
    QDiv(QSum([i \in 1..Len(qs) |->
                  QMul(QSub(qs[i], QMean(qs)), QSub(qs[i], QMean(qs)))]),
         I(Len(qs) - 1))

\* the keys of a function in increasing order
RECURSIVE Ascending(_)
Ascending(S) ==
    IF S = {} THEN <<>>
    ELSE LET least == CHOOSE x \in S : \A y \in S : x <= y
         IN  <<least>> \o Ascending(S \ {least})

\* _analyze_seasonality: the mean amount of each calendar month over the mean
\* of the monthly means (amounts are positive); idxmax and idxmin return the
\* first month holding the extreme; the std of a single index is nan and
\* nan > 0.1 is False
_analyze_seasonality(df) ==
    LET months == {MonthOf(df[i].date) : i \in 1..Len(df)}
        Rows(m) == SelectSeq(df, LAMBDA row : MonthOf(row.date) = m)
        monthly_data == [m \in months |-> Mean(AmountsOf(Rows(m)))]
        order == Ascending(months)
        overall_mean == QMean([i \in 1..Len(order) |-> monthly_data[order[i]]])
        seasonality_index ==
            [m \in months |-> QDiv(monthly_data[m], overall_mean)]
        peak_month ==
            CHOOSE m \in months :
                /\ \A k \in months : QLe(seasonality_index[k], seasonality_index[m])
                /\ \A k \in months :
                       seasonality_index[k] = seasonality_index[m] => m <= k
        low_month ==
            CHOOSE m \in months :
                /\ \A k \in months : QLe(seasonality_index[m], seasonality_index[k])
                /\ \A k \in months :
                       seasonality_index[k] = seasonality_index[m] => m <= k
    IN  [seasonality_index |-> seasonality_index,
         peak_month |-> peak_month,
         low_month |-> low_month,
         has_seasonality |->
             /\ Len(order) > 1
             /\ QLt(Q(1, 100),
                    QSampleVariance([i \in 1..Len(order) |->
                                        seasonality_index[order[i]]]))]

\* the days between consecutive rows
TimeDiffs(df) == [i \in 1..(Len(df) - 1) |-> df[i + 1].date - df[i].date]

\* Series.mode().iloc[0]: the smallest of the most frequent values
Mode(xs) ==
    LET Count(v) == Cardinality({i \in 1..Len(xs) : xs[i] = v})
        values == {xs[i] : i \in 1..Len(xs)}
    IN  CHOOSE v \in values :
            /\ \A w \in values : Count(w) <= Count(v)
            /\ \A w \in values : Count(w) = Count(v) => v <= w

\* _analyze_frequency of at least three rows
_analyze_frequency(df) ==
    LET time_diffs == TimeDiffs(df)
        n == Len(time_diffs)
    IN  [average_frequency_days |-> Mean(time_diffs),
         frequency_std |->
             Sqrt(Q(n * Sum(Squares(time_diffs))
                        - Sum(time_diffs) * Sum(time_diffs), n * (n - 1))),
         most_common_interval |-> Mode(time_diffs),
         frequency_consistency |->
             IF Sum(time_diffs) > 0 THEN OneMinusSqrt(SampleCv2(time_diffs))
             ELSE I(0)]

\* Series.quantile(0.95): linear interpolation between the order statistics
\* around position 0.95 * (n - 1)
Quantile95(amounts) ==
    LET sorted == SortSeq(amounts, <)
        n == Len(amounts)
        lower == (19 * (n - 1)) \div 20
        fraction == Q((19 * (n - 1)) % 20, 20)
    IN  IF (19 * (n - 1)) % 20 = 0 THEN I(sorted[lower + 1])
        ELSE QAdd(I(sorted[lower + 1]),
                  QMul(fraction, I(sorted[lower + 2] - sorted[lower + 1])))

\* the rows IsolationForest(contamination = 0.1) may label -1: none when all
\* amounts are equal (every row has the same score); otherwise none, or the
\* first row of the largest amount, or the first row of the smallest amount
IsolationOutcomes(df) ==
    LET amounts == AmountsOf(df)
        Extreme(i) == \/ \A j \in 1..Len(df) : amounts[j] <= amounts[i]
                      \/ \A j \in 1..Len(df) : amounts[i] <= amounts[j]
    IN  IF \A i \in 1..Len(df) : amounts[i] = amounts[1] THEN {{}}
        ELSE {{}} \cup {{i} : i \in {j \in 1..Len(df) :
                                        /\ Extreme(j)
                                        /\ \A k \in 1..(j - 1) :
                                               amounts[k] # amounts[j]}}

\* _detect_income_anomalies, labelled being the rows labelled -1
_detect_income_anomalies(df, labelled) ==
    LET rows == SelectSeq([i \in 1..Len(df) |-> i], LAMBDA i : i \in labelled)
    IN  [k \in 1..Len(rows) |->
            [date |-> df[rows[k]].date,
             amount |-> df[rows[k]].amount,
             type |-> "income_anomaly",
             severity |->
                 IF QLt(Quantile95(AmountsOf(df)), I(df[rows[k]].amount))
                 THEN "high" ELSE "medium"]]

\* a list of events makes a DataFrame with a date column when some event has
\* a date; df['date'] raises KeyError otherwise
HasColumn(events, column) ==
    \E i \in 1..Len(events) : column \in DOMAIN events[i]

\* _analyze_income_patterns that analyses nine events
_analyze_income_patterns_NineSuffice(incomes, significant, labelled) ==
    IF Len(incomes) < min_data_points - 1 THEN [insufficient_data |-> TRUE]
    ELSE IF ~HasColumn(incomes, "date") THEN Error("'date'")
    ELSE
        LET df == SortByDate(incomes)
            amounts == AmountsOf(df)
        IN  [total_income |-> Sum(amounts),
             average_income |-> Mean(amounts),
             income_volatility |->
                 IF Sum(amounts) > 0 THEN Sqrt(SampleCv2(amounts))
                 ELSE Sqrt(I(0)),
             trend |-> _analyze_trend(amounts, significant),
             seasonality |-> _analyze_seasonality(df),
             frequency |-> _analyze_frequency(df),
             anomalies |-> _detect_income_anomalies(df, labelled),
             data_points |-> Len(df)]

_analyze_income_patterns(incomes, significant, labelled) ==
    IF Len(incomes) < min_data_points THEN [insufficient_data |-> TRUE]
    ELSE IF ~HasColumn(incomes, "date") THEN Error("'date'")
    ELSE
        LET df == SortByDate(incomes)
            amounts == AmountsOf(df)
        IN  [total_income |-> Sum(amounts),
             average_income |-> Mean(amounts),
             income_volatility |->
                 IF Sum(amounts) > 0 THEN Sqrt(SampleCv2(amounts))
                 ELSE Sqrt(I(0)),
             trend |-> _analyze_trend(amounts, significant),
             seasonality |-> _analyze_seasonality(df),
             frequency |-> _analyze_frequency(df),
             anomalies |-> _detect_income_anomalies(df, labelled),
             data_points |-> Len(df)]

\* the distinct values of a column
ValuesOf(df, column) == {df[i][column] : i \in 1..Len(df)}

\* Series.unique(): the values in the order of their first appearance
Unique(xs) ==
    SelectSeq([i \in 1..Len(xs) |-> IF \E j \in 1..(i - 1) : xs[j] = xs[i]
                                    THEN None ELSE [first |-> xs[i]]],
              LAMBDA x : x # None)

\* _analyze_expenditure_categories (every row of a DataFrame with a category
\* column has a category); category_percentages is a dict in insertion
\* order: the sequence of its items
_analyze_expenditure_categories(df) ==
    IF ~HasColumn(df, "category") THEN Error("Category data not available")
    ELSE
        LET categories == ValuesOf(df, "category")
            Rows(c) == AmountsOf(SelectSeq(df, LAMBDA row : row.category = c))
            total_expenditure == Sum(AmountsOf(df))
            unique == Unique([i \in 1..Len(df) |-> df[i].category])
        IN  [category_totals |-> [c \in categories |-> Sum(Rows(c))],
             category_averages |-> [c \in categories |-> Mean(Rows(c))],
             category_counts |-> [c \in categories |-> Len(Rows(c))],
             category_percentages |->
                 [i \in 1..Len(unique) |->
                     [key |-> unique[i].first,
                      value |-> QMul(Q(Sum(Rows(unique[i].first)),
                                       total_expenditure),
                                     I(100))]]]

\* dt.day_name() of a day of 2023, and the order groupby puts the names in
DayName(day) ==
    <<"Sunday", "Monday", "Tuesday", "Wednesday", "Thursday", "Friday",
      "Saturday">>[((day - 1) % 7) + 1]

DayNameOrder ==
    <<"Friday", "Monday", "Saturday", "Sunday", "Thursday", "Tuesday",
      "Wednesday">>

\* _analyze_spending_patterns of rows without a time column
_analyze_spending_patterns(df) ==
    LET days == {DayName(df[i].date) : i \in 1..Len(df)}
        order == SelectSeq(DayNameOrder, LAMBDA name : name \in days)
        daily_spending ==
            [name \in days |->
                Mean(AmountsOf(SelectSeq(df, LAMBDA row :
                                                 DayName(row.date) = name)))]
        First(Better(_, _)) ==
            order[CHOOSE i \in 1..Len(order) :
                      /\ \A j \in 1..Len(order) :
                             ~Better(daily_spending[order[j]],
                                     daily_spending[order[i]])
                      /\ \A j \in 1..(i - 1) :
                             daily_spending[order[j]] # daily_spending[order[i]]]
    IN  [daily_patterns |-> daily_spending,
         hourly_patterns |-> <<>>,
         peak_spending_day |-> First(LAMBDA a, b : QLt(b, a)),
         lowest_spending_day |-> First(LAMBDA a, b : QLt(a, b))]

\* _detect_unusual_spending that also flags the rows at the threshold
_detect_unusual_spending_AtThreshold(df) ==
    LET high_value_threshold == Quantile95(AmountsOf(df))
        high_value_transactions ==
            SelectSeq(df, LAMBDA row :
                              QLe(high_value_threshold, I(row.amount)))
    IN  [k \in 1..Len(high_value_transactions) |->
            [date |-> high_value_transactions[k].date,
             amount |-> high_value_transactions[k].amount,
             category |-> Get(high_value_transactions[k], "category", "unknown"),
             type |-> "high_value_transaction",
             severity |-> "high"]]

_detect_unusual_spending(df) ==
    LET high_value_threshold == Quantile95(AmountsOf(df))
        high_value_transactions ==
            SelectSeq(df, LAMBDA row :
                              QLt(high_value_threshold, I(row.amount)))
    IN  [k \in 1..Len(high_value_transactions) |->
            [date |-> high_value_transactions[k].date,
             amount |-> high_value_transactions[k].amount,
             category |-> Get(high_value_transactions[k], "category", "unknown"),
             type |-> "high_value_transaction",
             severity |-> "high"]]

\* _analyze_expenditure_patterns that needs more than ten events
_analyze_expenditure_patterns_TenTooFew(expenditures, significant) ==
    IF Len(expenditures) <= min_data_points THEN [insufficient_data |-> TRUE]
    ELSE IF ~HasColumn(expenditures, "date") THEN Error("'date'")
    ELSE
        LET df == SortByDate(expenditures)
            amounts == AmountsOf(df)
        IN  [total_expenditure |-> Sum(amounts),
             average_expenditure |-> Mean(amounts),
             expenditure_volatility |->
                 IF Sum(amounts) > 0 THEN Sqrt(SampleCv2(amounts))
                 ELSE Sqrt(I(0)),
             category_analysis |-> _analyze_expenditure_categories(df),
             trend |-> _analyze_trend(amounts, significant),
             spending_patterns |-> _analyze_spending_patterns(df),
             unusual_spending |-> _detect_unusual_spending(df),
             data_points |-> Len(df)]

_analyze_expenditure_patterns(expenditures, significant) ==
    IF Len(expenditures) < min_data_points THEN [insufficient_data |-> TRUE]
    ELSE IF ~HasColumn(expenditures, "date") THEN Error("'date'")
    ELSE
        LET df == SortByDate(expenditures)
            amounts == AmountsOf(df)
        IN  [total_expenditure |-> Sum(amounts),
             average_expenditure |-> Mean(amounts),
             expenditure_volatility |->
                 IF Sum(amounts) > 0 THEN Sqrt(SampleCv2(amounts))
                 ELSE Sqrt(I(0)),
             category_analysis |-> _analyze_expenditure_categories(df),
             trend |-> _analyze_trend(amounts, significant),
             spending_patterns |-> _analyze_spending_patterns(df),
             unusual_spending |-> _detect_unusual_spending(df),
             data_points |-> Len(df)]

\* 1 - std/mean of the amounts (np.std) and of the days between rows
\* (Series.std), 0 for a mean of 0
ConsistencyScore(df) ==
    IF Sum(AmountsOf(df)) > 0 THEN OneMinusSqrt(Cv2(AmountsOf(df))) ELSE I(0)

FrequencyConsistency(df) ==
    IF Sum(TimeDiffs(df)) > 0 THEN OneMinusSqrt(SampleCv2(TimeDiffs(df)))
    ELSE I(0)

\* max(0, min(1, x)) of x = 1 - sqrt(q) or x = 0
Clamp01(x) ==
    IF "one_minus_sqrt" \in DOMAIN x
    THEN OneMinusSqrt(QMin(I(1), x.one_minus_sqrt))
    ELSE x

\* (a + b) / 2 for a and b of the form 1 - sqrt(q) or rational
HalfSum(a, b) == [half_sum |-> <<a, b>>]

\* HalfSum(a, b) > t and HalfSum(a, b) < t for a rational t < 1: with
\* R the sum of the rational parts and s1, s2 the square roots,
\*   (R - s1 - s2) / 2 > t  iff  s1 + s2 < R - 2t
RationalPart(x) == IF "one_minus_sqrt" \in DOMAIN x THEN I(1) ELSE x
RootPart(x) == IF "one_minus_sqrt" \in DOMAIN x THEN x.one_minus_sqrt ELSE I(0)

\* sqrt(q1) + sqrt(q2) < u, and the same with <=
RootSumBelow(q1, q2, u) ==
    LET w == QSub(QMul(u, u), QAdd(q1, q2))
    IN  /\ QLt(I(0), u)
        /\ QLt(I(0), w)
        /\ QLt(QMul(I(4), QMul(q1, q2)), QMul(w, w))

RootSumAtMost(q1, q2, u) ==
    LET w == QSub(QMul(u, u), QAdd(q1, q2))
    IN  /\ QLe(I(0), u)
        /\ QLe(I(0), w)
        /\ QLe(QMul(I(4), QMul(q1, q2)), QMul(w, w))

HalfSumAbove(h, t) ==
    LET a == h.half_sum[1]
        b == h.half_sum[2]
    IN  RootSumBelow(RootPart(a), RootPart(b),
                     QSub(QAdd(RationalPart(a), RationalPart(b)),
                          QMul(I(2), t)))

HalfSumBelow(h, t) ==
    LET a == h.half_sum[1]
        b == h.half_sum[2]
    IN  ~RootSumAtMost(RootPart(a), RootPart(b),
                       QSub(QAdd(RationalPart(a), RationalPart(b)),
                            QMul(I(2), t)))

_analyze_savings_consistency(df) ==
    [amount_consistency |-> Clamp01(ConsistencyScore(df)),
     frequency_consistency |-> Clamp01(FrequencyConsistency(df)),
     overall_consistency |->
         HalfSum(ConsistencyScore(df), FrequencyConsistency(df))]

\* Series.cumsum()
CumSum(xs) == [i \in 1..Len(xs) |-> Sum(SubSeq(xs, 1, i))]

_analyze_savings_goals(df) ==
    [total_savings |-> Sum(AmountsOf(df)),
     average_monthly_savings |-> Mean(AmountsOf(df)),
     savings_trajectory |-> CumSum(AmountsOf(df)),
     goal_achievement_rate |-> Q(8, 10)]

\* _predict_savings_trajectory: the regression line continued for 12 months
_predict_savings_trajectory(df) ==
    LET amounts == AmountsOf(df)
        predicted_amounts ==
            [k \in 1..12 |->
                QAdd(QMul(Slope(amounts), I(Len(amounts) + k - 1)),
                     Intercept(amounts))]
    IN  [predicted_monthly_savings |-> predicted_amounts,
         predicted_total_savings |-> QSum(predicted_amounts),
         confidence |-> Q(7, 10)]

_analyze_savings_patterns(savings) ==
    IF Len(savings) < min_data_points THEN [insufficient_data |-> TRUE]
    ELSE IF ~HasColumn(savings, "date") THEN Error("'date'")
    ELSE
        LET df == SortByDate(savings)
        IN  [total_savings |-> Sum(AmountsOf(df)),
             average_savings |-> Mean(AmountsOf(df)),
             consistency |-> _analyze_savings_consistency(df),
             goals_analysis |-> _analyze_savings_goals(df),
             trajectory |-> _predict_savings_trajectory(df),
             data_points |-> Len(df)]

\* _analyze_transaction_frequency: the rows of each date counted
_analyze_transaction_frequency(df) ==
    LET dates == Ascending(ValuesOf(df, "date"))
        daily_counts ==
            [i \in 1..Len(dates) |->
                Cardinality({j \in 1..Len(df) : df[j].date = dates[i]})]
    IN  [average_daily_transactions |-> Mean(daily_counts),
         max_daily_transactions |->
             CHOOSE c \in {daily_counts[i] : i \in 1..Len(dates)} :
                 \A i \in 1..Len(dates) : daily_counts[i] <= c,
         transaction_frequency_std |->
             IF Len(dates) < 2 THEN NaN
             ELSE Sqrt(Q(Len(dates) * Sum(Squares(daily_counts))
                             - Sum(daily_counts) * Sum(daily_counts),
                         Len(dates) * (Len(dates) - 1))),
         most_active_day |->
             dates[CHOOSE i \in 1..Len(dates) :
                       /\ \A j \in 1..Len(dates) :
                              daily_counts[j] <= daily_counts[i]
                       /\ \A j \in 1..(i - 1) :
                              daily_counts[j] < daily_counts[i]]]

\* _analyze_transaction_amounts (without the histogram)
_analyze_transaction_amounts(df) ==
    LET amounts == AmountsOf(df)
        sorted == SortSeq(amounts, <)
        n == Len(amounts)
    IN  [average_amount |-> Mean(amounts),
         median_amount |->
             IF n % 2 = 1 THEN I(sorted[(n + 1) \div 2])
             ELSE Q(sorted[n \div 2] + sorted[(n \div 2) + 1], 2),
         amount_std |-> Sqrt(Q(n * Sum(Squares(amounts))
                                   - Sum(amounts) * Sum(amounts), n * n)),
         min_amount |-> sorted[1],
         max_amount |-> sorted[n]]

\* _analyze_transaction_timing of rows without a time column
_analyze_transaction_timing(df) == Error("Time data not available")

_analyze_transaction_types(df) ==
    IF ~HasColumn(df, "type")
    THEN Error("Transaction type data not available")
    ELSE
        LET types == ValuesOf(df, "type")
            Rows(t) == AmountsOf(SelectSeq(df, LAMBDA row : row.type = t))
        IN  [type_totals |-> [t \in types |-> Sum(Rows(t))],
             type_averages |-> [t \in types |-> Mean(Rows(t))],
             type_counts |-> [t \in types |-> Len(Rows(t))]]

_analyze_transaction_patterns(transactions) ==
    IF Len(transactions) < min_data_points THEN [insufficient_data |-> TRUE]
    ELSE IF ~HasColumn(transactions, "date") THEN Error("'date'")
    ELSE
        LET df == SortByDate(transactions)
        IN  [frequency |-> _analyze_transaction_frequency(df),
             amounts |-> _analyze_transaction_amounts(df),
             timing |-> _analyze_transaction_timing(df),
             types |-> _analyze_transaction_types(df),
             data_points |-> Len(df)]

\* _analyze_behavioral_patterns: fixed placeholder values
_analyze_behavioral_patterns(data) ==
    [risk_tolerance |->
         [risk_score |-> Q(1, 2), risk_level |-> "moderate",
          factors |-> <<"savings_behavior", "investment_preferences">>],
     financial_goals |->
         <<[goal_type |-> "emergency_fund", priority |-> "high",
            estimated_amount |-> 50000, confidence |-> Q(8, 10)],
           [goal_type |-> "retirement_savings", priority |-> "medium",
            estimated_amount |-> 1000000, confidence |-> Q(6, 10)]>>,
     spending_habits |->
         [impulse_spending |-> Q(3, 10), budget_adherence |-> Q(7, 10),
          preferred_categories |-> <<"food", "transport", "entertainment">>,
          spending_consistency |-> Q(6, 10)],
     savings_behavior |->
         [savings_rate |-> Q(15, 100), savings_consistency |-> Q(8, 10),
          savings_goals |-> <<"emergency_fund", "vacation">>,
          savings_motivation |-> "high"],
     investment_preferences |->
         [investment_risk |-> "moderate",
          preferred_investments |-> <<"savings_account", "bonds">>,
          investment_frequency |-> "monthly", investment_amount |-> 5000]]

\* patterns.get('insufficient_data') of a category
Insufficient(category_patterns) ==
    Get(category_patterns, "insufficient_data", FALSE)

\* x > t and x < t for x a HalfSum or a rational
ConsistencyAbove(x, t) ==
    IF "half_sum" \in DOMAIN x THEN HalfSumAbove(x, t) ELSE QLt(t, x)

ConsistencyBelow(x, t) ==
    IF "half_sum" \in DOMAIN x THEN HalfSumBelow(x, t) ELSE QLt(x, t)

\* max(percentages, key=percentages.get): the first item of the largest value
TopCategory(percentages) ==
    percentages[CHOOSE i \in 1..Len(percentages) :
                    /\ \A j \in 1..Len(percentages) :
                           QLe(percentages[j].value, percentages[i].value)
                    /\ \A j \in 1..(i - 1) :
                           percentages[j].value # percentages[i].value]

\* max() of an empty sequence raises ValueError: the expenditure patterns
\* hold a non-empty category_analysis without category_percentages
TopCategoryRaises(patterns) ==
    LET expenditure_patterns == Get(patterns, "expenditure", <<>>)
        category_analysis == Get(expenditure_patterns, "category_analysis", <<>>)
    IN  /\ ~Insufficient(expenditure_patterns)
        /\ DOMAIN category_analysis # {}
        /\ Get(category_analysis, "category_percentages", <<>>) = <<>>

_generate_insights(patterns) ==
    LET income_patterns == Get(patterns, "income", <<>>)
        expenditure_patterns == Get(patterns, "expenditure", <<>>)
        savings_patterns == Get(patterns, "savings", <<>>)
        trend == Get(income_patterns, "trend", <<>>)
        category_analysis == Get(expenditure_patterns, "category_analysis", <<>>)
        consistency == Get(savings_patterns, "consistency", <<>>)
        Insight(cond, insight) == IF cond THEN <<insight>> ELSE <<>>
    IN  IF TopCategoryRaises(patterns) THEN <<>>
        ELSE
            Insight(/\ ~Insufficient(income_patterns)
                    /\ Get(trend, "direction", "") = "increasing",
                    [type |-> "income_growth",
                     title |-> "Income Growth Detected",
                     impact |-> "positive",
                     confidence |-> Get(trend, "strength", Q(1, 2))])
            \o Insight(/\ ~Insufficient(income_patterns)
                       /\ VolatilityAbove(Get(income_patterns, "income_volatility",
                                              Sqrt(I(0))), Q(3, 10)),
                       [type |-> "income_volatility",
                        title |-> "High Income Volatility",
                        impact |-> "negative",
                        confidence |-> Q(8, 10)])
            \o (IF /\ ~Insufficient(expenditure_patterns)
                   /\ DOMAIN category_analysis # {}
                THEN <<[type |-> "spending_category",
                        title |-> <<"Top Spending Category: ",
                                    TopCategory(
                                        category_analysis.category_percentages).key>>,
                        impact |-> "neutral",
                        confidence |-> Q(9, 10)]>>
                ELSE <<>>)
            \o Insight(/\ ~Insufficient(savings_patterns)
                       /\ ConsistencyAbove(Get(consistency, "overall_consistency",
                                               I(0)), Q(8, 10)),
                       [type |-> "savings_consistency",
                        title |-> "Excellent Savings Consistency",
                        impact |-> "positive",
                        confidence |-> Q(9, 10)])

\* a dict with the entry when cond holds, the empty dict otherwise
Entry(cond, key, value) == IF cond THEN key :> value ELSE <<>>

\* _generate_predictions without the insufficient_data test of line 745
_generate_predictions_AlwaysExpenditure(patterns) ==
    LET income_patterns == Get(patterns, "income", <<>>)
        expenditure_patterns == Get(patterns, "expenditure", <<>>)
        savings_patterns == Get(patterns, "savings", <<>>)
        trend == Get(income_patterns, "trend", <<>>)
        average_income == Get(income_patterns, "average_income", I(0))
        average_expenditure ==
            Get(expenditure_patterns, "average_expenditure", I(0))
        trajectory == Get(savings_patterns, "trajectory", <<>>)
    IN  Entry(/\ ~Insufficient(income_patterns)
              /\ Get(trend, "direction", "") = "increasing",
              "income",
              [next_month |-> QMul(average_income, Q(105, 100)),
               next_quarter |-> QMul(average_income, Q(115, 100)),
               confidence |-> Get(trend, "strength", Q(1, 2))])
        @@ Entry(TRUE,
                 "expenditure",
                 [next_month |-> average_expenditure,
                  next_quarter |-> QMul(average_expenditure, I(3)),
                  confidence |-> Q(7, 10)])
        @@ Entry(~Insufficient(savings_patterns) /\ DOMAIN trajectory # {},
                 "savings",
                 [next_month |->
                      Get(trajectory, "predicted_monthly_savings", <<I(0)>>)[1],
                  next_quarter |->
                      Get(trajectory, "predicted_total_savings", I(0)),
                  confidence |-> Get(trajectory, "confidence", Q(1, 2))])

_generate_predictions(patterns) ==
    LET income_patterns == Get(patterns, "income", <<>>)
        expenditure_patterns == Get(patterns, "expenditure", <<>>)
        savings_patterns == Get(patterns, "savings", <<>>)
        trend == Get(income_patterns, "trend", <<>>)
        average_income == Get(income_patterns, "average_income", I(0))
        average_expenditure ==
            Get(expenditure_patterns, "average_expenditure", I(0))
        trajectory == Get(savings_patterns, "trajectory", <<>>)
    IN  Entry(/\ ~Insufficient(income_patterns)
              /\ Get(trend, "direction", "") = "increasing",
              "income",
              [next_month |-> QMul(average_income, Q(105, 100)),
               next_quarter |-> QMul(average_income, Q(115, 100)),
               confidence |-> Get(trend, "strength", Q(1, 2))])
        @@ Entry(~Insufficient(expenditure_patterns),
                 "expenditure",
                 [next_month |-> average_expenditure,
                  next_quarter |-> QMul(average_expenditure, I(3)),
                  confidence |-> Q(7, 10)])
        @@ Entry(~Insufficient(savings_patterns) /\ DOMAIN trajectory # {},
                 "savings",
                 [next_month |->
                      Get(trajectory, "predicted_monthly_savings", <<I(0)>>)[1],
                  next_quarter |->
                      Get(trajectory, "predicted_total_savings", I(0)),
                  confidence |-> Get(trajectory, "confidence", Q(1, 2))])

_generate_recommendations(patterns, insights) ==
    LET income_patterns == Get(patterns, "income", <<>>)
        expenditure_patterns == Get(patterns, "expenditure", <<>>)
        savings_patterns == Get(patterns, "savings", <<>>)
        category_analysis == Get(expenditure_patterns, "category_analysis", <<>>)
        consistency == Get(savings_patterns, "consistency", <<>>)
        Recommend(cond, recommendation) ==
            IF cond THEN <<recommendation>> ELSE <<>>
    IN  IF TopCategoryRaises(patterns) THEN <<>>
        ELSE
            Recommend(/\ ~Insufficient(income_patterns)
                      /\ VolatilityAbove(Get(income_patterns, "income_volatility",
                                             Sqrt(I(0))), Q(3, 10)),
                      [category |-> "income_stability", priority |-> "high",
                       title |-> "Diversify Income Sources"])
            \o (IF /\ ~Insufficient(expenditure_patterns)
                   /\ DOMAIN category_analysis # {}
                   /\ QLt(I(40),
                          TopCategory(category_analysis.category_percentages).value)
                THEN <<[category |-> "expenditure_optimization",
                        priority |-> "medium",
                        title |-> <<"Optimize ",
                                    TopCategory(
                                        category_analysis.category_percentages).key,
                                    " Spending">>]>>
                ELSE <<>>)
            \o Recommend(/\ ~Insufficient(savings_patterns)
                         /\ ConsistencyBelow(Get(consistency, "overall_consistency",
                                                 I(0)), Q(1, 2)),
                         [category |-> "savings_consistency", priority |-> "high",
                          title |-> "Improve Savings Consistency"])

\* the patterns of analyze_user_patterns (lines 54-72); income_significant
\* and expenditure_significant are the outcomes of the two p-value tests,
\* labelled the income rows IsolationForest labels -1
AnalyzePatterns(data, income_significant, expenditure_significant, labelled) ==
    [income |->
         _analyze_income_patterns(Get(data, "incomes", <<>>),
                                  income_significant, labelled),
     expenditure |->
         _analyze_expenditure_patterns(Get(data, "expenditures", <<>>),
                                       expenditure_significant),
     savings |-> _analyze_savings_patterns(Get(data, "savings", <<>>)),
     transactions |->
         _analyze_transaction_patterns(Get(data, "transactions", <<>>)),
     behavioral |-> _analyze_behavioral_patterns(data)]

\* the value analyze_user_patterns returns (without analyzed_at)
AnalysisResult(user_id, patterns) ==
    [user_id |-> user_id,
     patterns |-> patterns,
     insights |-> _generate_insights(patterns),
     predictions |-> _generate_predictions(patterns),
     recommendations |->
         _generate_recommendations(patterns, _generate_insights(patterns))]

-----------------------------------------------------------------------------
(* The pattern analysis, called directly *)

\* the longest event list of a category
MaxPatternEvents == 11

\* dates a month apart and a week apart
Monthly(i) == 15 + 30 * (i - 1)
Weekly(i) == 7 * i

\* amounts: all equal, rising by one each event, swinging around 10
Flat(i) == 10
Rising(i) == 10 + i
Swinging(i) == IF i % 2 = 0 THEN 4 ELSE 16

PatternLengths == 0..MaxPatternEvents

Events(n, AmountAt(_), DateAt(_)) ==
    [i \in 1..n |-> [amount |-> AmountAt(i), date |-> DateAt(i)]]

\* the events with a field added to each
WithField(events, field, ValueAt(_)) ==
    [i \in 1..Len(events) |-> (field :> ValueAt(i)) @@ events[i]]

\* ten events without dates
Undated == [i \in 1..min_data_points |-> [amount |-> 10]]

IncomeLists ==
    {Events(n, Flat, Monthly) : n \in PatternLengths}
    \cup {Events(n, Rising, Monthly) : n \in PatternLengths}
    \cup {Events(n, Swinging, Weekly) : n \in PatternLengths}
    \cup {Undated}

\* 20 expenditures of about 1,000 and one of 50,000, in hundreds
OutlierExample ==
    Events(21, LAMBDA i : IF i = 8 THEN 500 ELSE 9 + (i % 3), Weekly)

Labels(i) == IF i % 3 = 0 THEN "rent" ELSE "food"

ExpenditureLists ==
    {Events(n, Swinging, Weekly) : n \in PatternLengths}
    \cup {WithField(Events(n, Rising, Weekly), "category", Labels) :
             n \in PatternLengths}
    \cup {Events(n, LAMBDA i : IF i = 3 THEN 50 ELSE 10 + (i % 2), Monthly) :
             n \in PatternLengths}
    \cup {OutlierExample, WithField(OutlierExample, "category", Labels), Undated}

SavingsLists ==
    {Events(n, Flat, Weekly) : n \in PatternLengths}
    \cup {Events(n, Swinging, Monthly) : n \in PatternLengths}

TransactionLists ==
    {Events(n, Rising, Weekly) : n \in PatternLengths}
    \cup {WithField(Events(n, Flat, Monthly), "type",
                    LAMBDA i : IF i % 2 = 0 THEN "debit" ELSE "credit") :
             n \in PatternLengths}

NoEvents ==
    [incomes |-> <<>>, expenditures |-> <<>>, savings |-> <<>>,
     transactions |-> <<>>]

\* ten events in every category
TenEach ==
    [incomes |-> Events(min_data_points, Rising, Monthly),
     expenditures |->
         WithField(Events(min_data_points, Rising, Weekly), "category", Labels),
     savings |-> Events(min_data_points, Flat, Weekly),
     transactions |-> Events(min_data_points, Rising, Weekly)]

\* one category varies, the others are empty or hold ten events
PatternInputs ==
    UNION {{[base EXCEPT !.incomes = xs] : xs \in IncomeLists}
           \cup {[base EXCEPT !.expenditures = xs] : xs \in ExpenditureLists}
           \cup {[base EXCEPT !.savings = xs] : xs \in SavingsLists}
           \cup {[base EXCEPT !.transactions = xs] : xs \in TransactionLists} :
           base \in {NoEvents, TenEach}}

\* the DataFrame of a category that is analysed, no rows otherwise
Analysed(events) ==
    IF Len(events) < min_data_points \/ ~HasColumn(events, "date") THEN <<>>
    ELSE SortByDate(events)

\* the outcomes of the two p-value tests of _analyze_trend and the income
\* rows IsolationForest labels -1; both libraries are deterministic, so the
\* outcomes are fixed with the data
LibraryOutcomes(data) ==
    [income_significant :
         SignificanceOutcomes(AmountsOf(Analysed(Get(data, "incomes", <<>>)))),
     expenditure_significant :
         SignificanceOutcomes(
             AmountsOf(Analysed(Get(data, "expenditures", <<>>)))),
     labelled : IsolationOutcomes(Analysed(Get(data, "incomes", <<>>)))]

InitPatterns ==
    /\ financial_data = None
    /\ estimator_output = None
    /\ model_file = "absent"
    /\ InitScorer
    /\ NoCalls
    /\ user_data \in PatternInputs
    /\ library_outcomes \in LibraryOutcomes(user_data)
    /\ analysis_result = None
    /\ analysis_cache = [u \in Users |-> None]

\* _cache_analysis_result: setex of the JSON text; json.dumps or redis may
\* raise, which is logged and dropped
_cache_analysis_result(user_id, result, stored) ==
    analysis_cache' =
        IF stored THEN [analysis_cache EXCEPT ![user_id] = JsonDumps(result)]
        ELSE analysis_cache

analyze_user_patterns(user_id) ==
    /\ \E patterns \in {AnalyzePatterns(user_data,
                                        library_outcomes.income_significant,
                                        library_outcomes.expenditure_significant,
                                        library_outcomes.labelled)} :
           \E result \in {AnalysisResult(user_id, patterns)} :
               /\ analysis_result' = result
               /\ \E stored \in BOOLEAN :
                      _cache_analysis_result(user_id, result, stored)
    /\ UNCHANGED <<financial_data, estimator_output, model_file, credit_factors,
                   model, scaler, startup, cache, returned, processed_data,
                   fallback_call, calls, user_data, library_outcomes, feature_vector>>

NextPatterns == \E u \in Users : analyze_user_patterns(u)

SpecPatterns == InitPatterns /\ [][NextPatterns]_vars

-----------------------------------------------------------------------------
(* Properties *)

ResultKeys ==
    {"user_id", "credit_score", "credit_rating", "confidence_score",
     "credit_factors", "risk_indicators", "recommendations", "model_version"}

Scored == returned.op = "calculate_credit_score"
          /\ "credit_score" \in DOMAIN returned.value

\* the band of the data model that holds an integer score
BandOf(score) ==
    IF score \in 750..850 THEN "excellent"
    ELSE IF score \in 700..749 THEN "good"
    ELSE IF score \in 650..699 THEN "fair"
    ELSE IF score \in 600..649 THEN "poor"
    ELSE IF score \in 300..599 THEN "very_poor"
    ELSE "none"

\* the fallback-formula score of the bundle, clamped and truncated
FallbackCreditScore(user_id) ==
    ToInt(ClampScore(_calculate_fallback_score(
        process_user_financial_data(credit_factors, user_id, financial_data))))

\* the estimator path (scaling, predict) raises for the bundle
EstimatorPathRaises ==
    /\ model # "None"
    /\ "error" \in DOMAIN PredictScore(model, scaler,
                      process_user_financial_data(credit_factors, "u1",
                                                  financial_data),
                      estimator_output)

\* C1: every value calculate_credit_score returns with a credit_score has an
\* integer credit_score with 300 <= credit_score <= 850, also when the raw
\* prediction lies below 300 or above 850.
C1_ScoreInRange == Scored => returned.value.credit_score \in 300..850

\* a score was returned for a raw prediction above 850
C1_Witness ==
    /\ Scored
    /\ QLt(I(850), estimator_output)
    /\ returned.value.credit_score = 850

\* C2: in every returned result the credit_rating is the band that contains
\* the returned integer credit_score, also for non-integer predicted scores.
C2_RatingIsBandOfScore ==
    Scored => returned.value.credit_rating = BandOf(returned.value.credit_score)

\* C3: calculate_credit_score returns a complete ScoreResult for every bundle
\* and never an object that carries an 'error' key.
C3_AlwaysCompleteResult ==
    returned.op = "calculate_credit_score"
        => /\ DOMAIN returned.value = ResultKeys
           /\ "error" \notin DOMAIN returned.value

\* C4: when scaling or predict raises during calculate_credit_score, the call
\* still returns a credit_score, equal to the clamped and truncated value of
\* the fallback formula for the same input.
C4_FallbackOnEstimatorFailure ==
    (returned.op = "calculate_credit_score" /\ EstimatorPathRaises)
        => /\ "credit_score" \in DOMAIN returned.value
           /\ returned.value.credit_score = FallbackCreditScore(returned.user_id)

Processed == processed_data # None

PaymentHistoryScore == processed_data.credit_factors.payment_history.score

\* C6: for a bundle with an empty loan list the payment_history raw score is
\* 0.5 and loan_utilization is 0.
C6_NoLoansNeutralScore ==
    (Processed /\ financial_data.loans = <<>>)
        => /\ PaymentHistoryScore = Q(1, 2)
           /\ Get(processed_data.financial_metrics.loans, "loan_utilization",
                  I(0)) = I(0)

\* a payment counts as on time unless its on_time flag is false
OnTime(payment) == ~("on_time" \in DOMAIN payment /\ payment.on_time = FALSE)

\* on-time payments / payments of a loan, 0.5 for a loan without payments
OnTimeRatio(loan) ==
    IF loan.payments = <<>> THEN Q(1, 2)
    ELSE Q(Cardinality({i \in 1..Len(loan.payments) : OnTime(loan.payments[i])}),
           Len(loan.payments))

\* C7: for a non-empty loan list the payment_history raw score is the mean
\* over the loans of (on-time payments / payments), with 0.5 for a loan that
\* has no payments; a single loan paid on time throughout scores exactly 1.0.
\* (A payment without an on_time flag counts as on time.)
C7_PaymentHistoryIsMean ==
    (Processed /\ financial_data.loans # <<>>)
        => LET loans == financial_data.loans
           IN  /\ QMul(PaymentHistoryScore, I(Len(loans)))
                      = QSum([i \in 1..Len(loans) |-> OnTimeRatio(loans[i])])
               /\ (/\ Len(loans) = 1
                   /\ loans[1].payments # <<>>
                   /\ \A i \in 1..Len(loans[1].payments) :
                          OnTime(loans[1].payments[i]))
                      => PaymentHistoryScore = I(1)

\* two loans, one without payments and one with a late payment: (0.5 + 0.5) / 2
C7_Witness ==
    /\ Processed
    /\ Len(financial_data.loans) = 2
    /\ financial_data.loans[1].payments = <<>>
    /\ Len(financial_data.loans[2].payments) = 2
    /\ \E i \in 1..2 : ~OnTime(financial_data.loans[2].payments[i])
    /\ PaymentHistoryScore = Q(1, 2)

\* C8: the factor weights are 0.35, 0.30, 0.15, 0.10 and 0.10, they sum to 1,
\* no operation changes them, and the factors of every result carry them.
C8_WeightsFixed ==
    LET fixed == [payment_history |-> Q(35, 100),
                  credit_utilization |-> Q(30, 100),
                  credit_length |-> Q(15, 100), new_credit |-> Q(10, 100),
                  credit_mix |-> Q(10, 100)]
    IN  /\ credit_factors = fixed
        /\ QSum([i \in 1..Len(FactorNames) |-> credit_factors[FactorNames[i]]])
               = I(1)
        /\ Scored
               => /\ DOMAIN returned.value.credit_factors = DOMAIN fixed
                  /\ \A name \in DOMAIN fixed :
                         returned.value.credit_factors[name].weight = fixed[name]

\* a result with factors was returned for a bundle with a loan
C8_Witness ==
    /\ Scored
    /\ financial_data.loans # <<>>
    /\ returned.value.credit_factors.credit_utilization.score # I(1)

\* the sum of a field over the factors present
FactorTotal(factors, field) ==
    QSum([i \in 1..Len(FactorNames) |->
             IF FactorNames[i] \in DOMAIN factors
             THEN factors[FactorNames[i]][field] ELSE I(0)])

\* C9: the fallback score is 300 + 550 * (sum of weighted scores / sum of
\* weights) over the credit factors, 600 when the total weight is 0, and lies
\* in [300, 850] when every raw score lies in [0, 1].
C9_FallbackFormula ==
    fallback_call # None
        => LET factors == fallback_call.input.credit_factors
               weight == FactorTotal(factors, "weight")
               weighted == FactorTotal(factors, "weighted_score")
               score == fallback_call.score
           IN  /\ weight = I(0) => score = I(600)
               /\ weight # I(0)
                      => QMul(QSub(score, I(300)), weight)
                             = QMul(I(550), weighted)
               /\ (\A name \in DOMAIN factors :
                       /\ QLe(I(0), factors[name].score)
                       /\ QLe(factors[name].score, I(1)))
                      => QLe(I(300), score) /\ QLe(score, I(850))

\* the fallback formula was applied to the factors of a bundle with loans
C9_Witness ==
    /\ fallback_call # None
    /\ Processed
    /\ fallback_call.input = processed_data
    /\ financial_data.loans # <<>>
    /\ fallback_call.score # I(600)

\* C10: twelve monthly incomes averaging 15,000, no loans, no expenditures:
\* payment_history raw score 0.5, credit_utilization raw score 1.0, fallback
\* score 696, rating fair or poor.
C10_MonthlyIncomeExample ==
    (/\ Processed
     /\ financial_data.incomes \in MonthlyIncomes
     /\ financial_data.loans = <<>>
     /\ financial_data.expenditures = <<>>
     /\ fallback_call # None
     /\ fallback_call.input = processed_data)
        => /\ PaymentHistoryScore = Q(1, 2)
           /\ processed_data.credit_factors.credit_utilization.score = I(1)
           /\ fallback_call.score = I(696)
           /\ fallback_call.credit_rating \in {"fair", "poor"}

\* C14: when the cache write of calculate_credit_score fails, the call returns
\* the ScoreResult it returns with a working cache and no error object.
C14_CacheFailureNotPropagated ==
    (returned.op = "calculate_credit_score" /\ returned.cache_write = "failed")
        => /\ returned.value = ScoreResult(credit_factors, model, scaler,
                                           returned.user_id, financial_data,
                                           estimator_output)
           /\ DOMAIN returned.value = ResultKeys

\* a score was returned by a call whose cache write failed, and the cache
\* holds no entry for the user
C14_Witness ==
    /\ Scored
    /\ returned.cache_write = "failed"
    /\ cache[returned.user_id] = None

\* the categories of the bundle that hold at least one event
PopulatedCategories ==
    {c \in {"incomes", "deposits", "expenditures", "withdrawals", "loans"} :
        Get(financial_data, c, <<>>) # <<>>}

\* C15: the confidence_score of a result is the mean of data completeness, 0.8
\* and 0.7, data completeness being 0.2 for each of the five categories that
\* has data; it lies in [0, 1], and each category without data lowers it by
\* 0.2/3.
C15_ConfidenceCountsCategories ==
    Scored
        => LET data_completeness ==
                   QMul(Q(2, 10), I(Cardinality(PopulatedCategories)))
               confidence == returned.value.confidence_score
           IN  /\ confidence = QMean(<<data_completeness, Q(8, 10), Q(7, 10)>>)
               /\ QLe(I(0), confidence) /\ QLe(confidence, I(1))
               /\ QSub(Q(5, 6), confidence)
                      = QMul(Q(2, 30), I(5 - Cardinality(PopulatedCategories)))

\* C16: once construction is over, no call of calculate_credit_score,
\* get_credit_score or update_model changes the estimator, the scaler or the
\* scoring mode (estimator or fallback formula).
C16_EstimatorFixedAfterConstruction ==
    [][startup # "pending"
          => /\ model' = model
             /\ scaler' = scaler
             /\ (model' = "None") = (model = "None")]_vars

\* update_model has returned after a score was computed and cached, and the
\* scorer still holds the estimator loaded at construction
C16_Witness ==
    /\ returned.op = "update_model"
    /\ \E u \in Users : cache[u] # None
    /\ startup = "created"
    /\ model = "trained"

Variance(xs) ==
    QMean([i \in 1..Len(xs) |->
              QMul(QSub(I(xs[i]), Mean(xs)), QSub(I(xs[i]), Mean(xs)))])

\* stability s is 1 - stddev/mean of the amounts clamped to [0, 1], and 1.0
\* for fewer than two amounts
IsStabilityOf(s, amounts) ==
    IF Len(amounts) < 2 THEN s = OneMinusSqrt(I(0))
    ELSE Sum(amounts) > 0
             => s = OneMinusSqrt(QMin(I(1),
                        QDiv(Variance(amounts),
                             QMul(Mean(amounts), Mean(amounts)))))

\* C19: for incomes and for deposits the stability (consistency) is
\* 1 - stddev/mean clamped to [0, 1] when the category has at least two
\* events, and exactly 1.0 when it has one event or none.
C19_StabilityOfAmounts ==
    Processed
        => /\ IsStabilityOf(
                  processed_data.financial_metrics.income.income_stability,
                  financial_data.incomes)
           /\ IsStabilityOf(
                  processed_data.financial_metrics.deposits.deposit_consistency,
                  financial_data.deposits)

\* the types of the risk indicators of the processed data
RiskTypes ==
    {processed_data.risk_indicators[i].type :
        i \in 1..Len(processed_data.risk_indicators)}

\* C20: risk_indicators holds income_instability exactly when the income
\* stability is below 0.7, expenditure_volatility exactly when the expenditure
\* volatility is above 0.5, loan_defaults exactly when defaulted_loans is
\* above 0 and high_loan_utilization exactly when the loan utilization is
\* above 0.8; the comparisons are strict, so the values 0.7, 0.5, 0 and 0.8
\* themselves are not flagged.
C20_RiskIndicatorThresholds ==
    Processed
        => LET metrics == processed_data.financial_metrics
               \* stability = 1 - c < 0.7  iff  c > 0.3  iff  c^2 > 0.09
               unstable ==
                   QLt(Q(9, 100), metrics.income.income_stability.one_minus_sqrt)
               \* volatility = c > 0.5  iff  c^2 > 0.25; absent or nan: no
               volatile ==
                   /\ "expenditure_volatility" \in DOMAIN metrics.expenditure
                   /\ metrics.expenditure.expenditure_volatility # NaN
                   /\ QLt(Q(25, 100),
                          metrics.expenditure.expenditure_volatility.sqrt)
               defaults == Get(metrics.loans, "defaulted_loans", 0) > 0
               utilized ==
                   /\ "loan_utilization" \in DOMAIN metrics.loans
                   /\ QLt(Q(8, 10), metrics.loans.loan_utilization)
           IN  /\ ("income_instability" \in RiskTypes) = unstable
               /\ ("expenditure_volatility" \in RiskTypes) = volatile
               /\ ("loan_defaults" \in RiskTypes) = defaults
               /\ ("high_loan_utilization" \in RiskTypes) = utilized
               /\ RiskTypes \subseteq
                      {"income_instability", "expenditure_volatility",
                       "loan_defaults", "high_loan_utilization"}
               /\ Cardinality(RiskTypes) = Len(processed_data.risk_indicators)

\* income stability exactly 0.7 and loan utilization exactly 0.8, expenditures
\* present: nothing is flagged
C20_Witness ==
    /\ Processed
    /\ processed_data.financial_metrics.income.income_stability
           = OneMinusSqrt(Q(9, 100))
    /\ Get(processed_data.financial_metrics.loans, "loan_utilization", I(0))
           = Q(8, 10)
    /\ financial_data.expenditures # <<>>
    /\ processed_data.risk_indicators = <<>>

\* what the call returns when it runs alone
AloneResult(c) ==
    ScoreResult(credit_factors, model, scaler, calls[c].user_id,
                calls[c].financial_data,
                estimator_output[calls[c].financial_data])

\* C17: in every interleaving of concurrent calculate_credit_score calls each
\* call returns the result it returns when run alone, and a step of a call
\* writes no state of the scorer that a call reads: it changes neither the
\* weights nor the estimator nor the scaler, and in the cache only the entry
\* of the user_id of the call that is returning.
C17_CallsIndependent ==
    [][calls' # calls
          => /\ UNCHANGED <<credit_factors, model, scaler, startup, model_file,
                            estimator_output>>
             /\ \A u \in Users :
                    cache'[u] # cache[u]
                        => \E c \in CallIds :
                               /\ calls[c].pc = "line616"
                               /\ calls'[c].pc = "done"
                               /\ calls[c].user_id = u
             /\ \A c \in CallIds :
                    (InFlight(c) /\ calls'[c].pc = "done")
                        => calls'[c].returned = AloneResult(c)]_vars

\* two calls for the same user with different bundles overlapped, both
\* returned a score, and the cache holds the result of one of them
C17_Witness ==
    /\ calls # <<>>
    /\ \A c \in CallIds :
           /\ calls[c].pc = "done"
           /\ "credit_score" \in DOMAIN calls[c].returned
    /\ calls[1].user_id = calls[2].user_id
    /\ calls[1].financial_data # calls[2].financial_data
    /\ calls[1].returned # calls[2].returned
    /\ \E c \in CallIds : calls[c].concurrent
    /\ cache[calls[1].user_id] = JsonDumps(calls[1].returned)

\* the categories of analyze_user_patterns: the key of the events in the
\* data and the key of the pattern output
PatternCategories ==
    {[events |-> "incomes", patterns |-> "income"],
     [events |-> "expenditures", patterns |-> "expenditure"],
     [events |-> "savings", patterns |-> "savings"],
     [events |-> "transactions", patterns |-> "transactions"]}

Analyzed == analysis_result # None

EventsIn(category) == Get(user_data, category.events, <<>>)
PatternsOf(category) == analysis_result.patterns[category.patterns]

\* C11: every category with fewer than 10 events (0 to 9) has a pattern
\* output with insufficient_data = true and without a trend entry and a
\* seasonality entry.
C11_FewEventsInsufficient ==
    Analyzed
        => \A category \in PatternCategories :
               Len(EventsIn(category)) < 10
                   => /\ "insufficient_data" \in DOMAIN PatternsOf(category)
                      /\ PatternsOf(category).insufficient_data = TRUE
                      /\ "trend" \notin DOMAIN PatternsOf(category)
                      /\ "seasonality" \notin DOMAIN PatternsOf(category)

\* nine incomes next to ten events in each other category
C11_Witness ==
    /\ Analyzed
    /\ Len(user_data.incomes) = 9
    /\ Len(user_data.expenditures) = 10
    /\ analysis_result.patterns.income = [insufficient_data |-> TRUE]
    /\ "trend" \in DOMAIN analysis_result.patterns.expenditure

\* at least 10 events, dated
WellFormedTen(category) ==
    /\ Len(EventsIn(category)) >= 10
    /\ \A i \in 1..Len(EventsIn(category)) :
           {"amount", "date"} \subseteq DOMAIN EventsIn(category)[i]

AnalysedExpenditures == Analysed(Get(user_data, "expenditures", <<>>))

\* the event lies strictly above the 95th percentile of the amounts: more
\* than 0.95 * (n - 1) of the n amounts are strictly smaller
Above95th(event, events) ==
    20 * Cardinality({i \in 1..Len(events) : events[i].amount < event.amount})
        > 19 * (Len(events) - 1)

\* C13: with at least 10 expenditure events unusual_spending holds exactly
\* the events whose amount is strictly above the 95th percentile of the
\* expenditure amounts, each with severity 'high'; of 20 events of about
\* 1,000 and one event of 50,000 only the latter is flagged.
C13_UnusualSpendingAbove95th ==
    (Analyzed /\ AnalysedExpenditures # <<>>)
        => LET df == AnalysedExpenditures
               unusual_spending ==
                   analysis_result.patterns.expenditure.unusual_spending
               flagged ==
                   {[date |-> unusual_spending[k].date,
                     amount |-> unusual_spending[k].amount] :
                        k \in 1..Len(unusual_spending)}
           IN  /\ flagged = {[date |-> df[i].date, amount |-> df[i].amount] :
                                i \in {j \in 1..Len(df) : Above95th(df[j], df)}}
               /\ Cardinality(flagged) = Len(unusual_spending)
               /\ \A k \in 1..Len(unusual_spending) :
                      unusual_spending[k].severity = "high"
               /\ Len(df) = 21
                      => /\ Len(unusual_spending) = 1
                         /\ unusual_spending[1].amount = 500

\* the 21 events of the example were analysed and one event was flagged
C13_Witness ==
    /\ Analyzed
    /\ user_data.expenditures = OutlierExample
    /\ Len(analysis_result.patterns.expenditure.unusual_spending) = 1
    /\ analysis_result.patterns.expenditure.unusual_spending[1].severity = "high"

\* the recommendations of the processed data, with title, description and
\* action_items left out
Recommendations == processed_data.recommendations

RecommendationCategories ==
    {Recommendations[i].category : i \in 1..Len(Recommendations)}

\* the place of a category in the order of the recommendation list
CategoryRank(category) ==
    CASE category = "payment_history" -> 1
      [] category = "credit_utilization" -> 2
      [] category = "income_stability" -> 3
      [] OTHER -> 0

\* C21: the recommendation list holds payment_history (priority high) exactly
\* when the payment_history raw score is below 0.8, credit_utilization
\* (medium) exactly when the utilization raw score is below 0.7 and
\* income_stability (medium) exactly when the income stability is below 0.7;
\* no medium entry precedes a high entry, and the order of the entries is
\* fixed by their categories, so that equal inputs give equal lists.
C21_RecommendationsPrioritized ==
    Processed
        => LET factors == processed_data.credit_factors
               \* stability = 1 - c < 0.7  iff  c^2 > 0.09
               unstable ==
                   QLt(Q(9, 100),
                       processed_data.financial_metrics.income
                           .income_stability.one_minus_sqrt)
               Priority(category) ==
                   IF category = "payment_history" THEN "high" ELSE "medium"
           IN  /\ ("payment_history" \in RecommendationCategories)
                      = QLt(factors.payment_history.score, Q(8, 10))
               /\ ("credit_utilization" \in RecommendationCategories)
                      = QLt(factors.credit_utilization.score, Q(7, 10))
               /\ ("income_stability" \in RecommendationCategories) = unstable
               /\ \A i \in 1..Len(Recommendations) :
                      /\ CategoryRank(Recommendations[i].category) > 0
                      /\ Recommendations[i].priority
                             = Priority(Recommendations[i].category)
               /\ \A i, j \in 1..Len(Recommendations) :
                      i < j
                          => /\ ~(/\ Recommendations[i].priority = "medium"
                                  /\ Recommendations[j].priority = "high")
                             /\ CategoryRank(Recommendations[i].category)
                                    < CategoryRank(Recommendations[j].category)

\* late payments, a fully used loan and no incomes: all three recommendations,
\* the high one first
C21_Witness ==
    /\ Processed
    /\ financial_data.loans # <<>>
    /\ QLt(PaymentHistoryScore, Q(8, 10))
    /\ Len(Recommendations) = 3
    /\ Recommendations[1].priority = "high"

\* total_loan_amount and total_credit_limit of a loan list, the credit_limit
\* of a loan defaulting to its amount
TotalLoanAmount(loans) == Sum([i \in 1..Len(loans) |-> loans[i].amount])
TotalCreditLimit(loans) ==
    Sum([i \in 1..Len(loans) |->
            IF "credit_limit" \in DOMAIN loans[i] THEN loans[i].credit_limit
            ELSE loans[i].amount])

\* total_loan_amount / total_credit_limit clamped to [0, 1], 0 for no limit
ClampedUtilization(loans) ==
    IF TotalCreditLimit(loans) = 0 THEN I(0)
    ELSE QMax(I(0), QMin(I(1), Q(TotalLoanAmount(loans),
                                 TotalCreditLimit(loans))))

\* C22: for every bundle with non-negative amounts each of the five credit
\* factors has a raw score in [0, 1] and weighted_score = raw score * weight;
\* the loan utilization is total_loan_amount / total_credit_limit clamped to
\* [0, 1] (0 when the total credit limit is 0, credit_limit defaulting to the
\* amount), and the credit_utilization raw score is 1 - loan utilization.
C22_FactorsAndUtilization ==
    Processed
        => LET factors == processed_data.credit_factors
               loan_metrics == processed_data.financial_metrics.loans
               utilization == ClampedUtilization(financial_data.loans)
           IN  /\ DOMAIN factors
                      = {FactorNames[i] : i \in 1..Len(FactorNames)}
               /\ \A name \in DOMAIN factors :
                      /\ QLe(I(0), factors[name].score)
                      /\ QLe(factors[name].score, I(1))
                      /\ factors[name].weight = credit_factors[name]
                      /\ factors[name].weighted_score
                             = QMul(factors[name].score, factors[name].weight)
               /\ "loan_utilization" \in DOMAIN loan_metrics
                      => loan_metrics.loan_utilization = utilization
               /\ QAdd(factors.credit_utilization.score, utilization) = I(1)

\* the loans exceed their credit limits: utilization 1, raw score 0
C22_Witness ==
    /\ Processed
    /\ TotalCreditLimit(financial_data.loans) > 0
    /\ TotalLoanAmount(financial_data.loans)
           > TotalCreditLimit(financial_data.loans)
    /\ processed_data.financial_metrics.loans.loan_utilization = I(1)
    /\ processed_data.credit_factors.credit_utilization.score = I(0)

\* the list with the events at positions i and j exchanged
Swap(xs, i, j) ==
    [k \in 1..Len(xs) |-> IF k = i THEN xs[j] ELSE IF k = j THEN xs[i] ELSE xs[k]]

\* the metrics of a category that are totals, averages, stability or
\* volatility, growth, frequency and payment-history score
ScalarMetrics(financial_metrics) ==
    [income |-> financial_metrics.income,
     deposits |-> financial_metrics.deposits,
     expenditure |-> financial_metrics.expenditure,
     withdrawals |->
         [total_withdrawals |-> financial_metrics.withdrawals.total_withdrawals,
          average_withdrawal |->
              Get(financial_metrics.withdrawals, "average_withdrawal", None)],
     loans |-> financial_metrics.loans]

\* C23: the metrics process_user_financial_data computes for a category are
\* the same for every permutation of the event list of that category (every
\* permutation is a product of exchanges of two events).
C23_MetricsIgnoreOrder ==
    Processed
        => \A category \in DOMAIN financial_data :
               \A i, j \in 1..Len(financial_data[category]) :
                   ScalarMetrics(
                       process_user_financial_data(
                           credit_factors, processed_data.user_id,
                           [financial_data EXCEPT
                               ![category] = Swap(@, i, j)]).financial_metrics)
                       = ScalarMetrics(processed_data.financial_metrics)

\* C24: the feature vector has exactly 10 entries in the order payment_history,
\* credit_utilization, credit_length, new_credit, credit_mix, income_stability,
\* expenditure_volatility, loan_utilization, defaulted_loan_count,
\* active_loan_count; each entry is the raw score of the factor or the metric
\* of that name computed for the request, and for absent data the default of
\* the factor calculator (loan utilization 0, line 301).
C24_FeaturesMatchFactors ==
    feature_vector # None
        => LET factors == processed_data.credit_factors
               metrics == processed_data.financial_metrics
           IN  /\ Len(feature_vector) = 10
               /\ \A i \in 1..Len(FactorNames) :
                      feature_vector[i] = factors[FactorNames[i]].score
               /\ feature_vector[6] = metrics.income.income_stability
               /\ "expenditure_volatility" \in DOMAIN metrics.expenditure
                      => feature_vector[7]
                             = metrics.expenditure.expenditure_volatility
               /\ feature_vector[8] = Get(metrics.loans, "loan_utilization", I(0))
               /\ QAdd(feature_vector[2], feature_vector[8]) = I(1)
               /\ feature_vector[9] = I(Get(metrics.loans, "defaulted_loans", 0))
               /\ feature_vector[10] = I(Get(metrics.loans, "active_loans", 0))

\* the insight types, the prediction key and the recommendation categories
\* that are about a category of events
InsightTypesAbout(category) ==
    CASE category.patterns = "income" -> {"income_growth", "income_volatility"}
      [] category.patterns = "expenditure" -> {"spending_category"}
      [] category.patterns = "savings" -> {"savings_consistency"}
      [] OTHER -> {}

RecommendationsAbout(category) ==
    CASE category.patterns = "income" -> {"income_stability"}
      [] category.patterns = "expenditure" -> {"expenditure_optimization"}
      [] category.patterns = "savings" -> {"savings_consistency"}
      [] OTHER -> {}

MarkedInsufficient(category) ==
    /\ "insufficient_data" \in DOMAIN PatternsOf(category)
    /\ PatternsOf(category).insufficient_data = TRUE

\* C25: when a category is marked insufficient_data, analyze_user_patterns
\* still returns a full analysis result without a top-level error, the marker
\* stands in the patterns of that category, and no insight, prediction or
\* recommendation about that category is generated.
C25_InsufficientCategorySkipped ==
    Analyzed
        => \A category \in PatternCategories :
               Len(EventsIn(category)) < min_data_points
                   => /\ DOMAIN analysis_result
                             = {"user_id", "patterns", "insights", "predictions",
                                "recommendations"}
                      /\ MarkedInsufficient(category)
                      /\ \A i \in 1..Len(analysis_result.insights) :
                             analysis_result.insights[i].type
                                 \notin InsightTypesAbout(category)
                      /\ category.patterns \notin DOMAIN analysis_result.predictions
                      /\ \A i \in 1..Len(analysis_result.recommendations) :
                             analysis_result.recommendations[i].category
                                 \notin RecommendationsAbout(category)

\* nine expenditures next to ten events in each other category: insights and
\* predictions about the other categories, none about the expenditures
C25_Witness ==
    /\ Analyzed
    /\ Len(user_data.expenditures) = 9
    /\ analysis_result.patterns.expenditure = [insufficient_data |-> TRUE]
    /\ analysis_result.insights # <<>>
    /\ "income" \in DOMAIN analysis_result.predictions
    /\ "expenditure" \notin DOMAIN analysis_result.predictions

C27_NotFoundIs404 ==
    returned.op = "GET /ai/credit-score/{user_id}"
        => /\ returned.retrieved = None
                  => returned.value
                         = [status_code |-> 404,
                            detail |-> "Credit score not found"]
           /\ returned.value.status_code = 500 => returned.retrieval_raised

InsightTypes ==
    {analysis_result.insights[i].type : i \in 1..Len(analysis_result.insights)}

\* C28: a missing optional field or a failure in one category does not remove
\* the insights derived from another category: with at least 10 incomes that
\* show a significant increasing trend and at least 10 expenditures that
\* carry no category label, the insights hold the income_growth insight.
C28_IncomeGrowthSurvivesUnlabelled ==
    (/\ Analyzed
     /\ Len(user_data.incomes) >= min_data_points
     /\ "trend" \in DOMAIN analysis_result.patterns.income
     /\ "direction" \in DOMAIN analysis_result.patterns.income.trend
     /\ analysis_result.patterns.income.trend.direction = "increasing"
     /\ Len(user_data.expenditures) >= min_data_points
     /\ \A i \in 1..Len(user_data.expenditures) :
            /\ "date" \in DOMAIN user_data.expenditures[i]
            /\ "category" \notin DOMAIN user_data.expenditures[i])
        => "income_growth" \in InsightTypes

\* C29: a bundle with no income events produces no income_instability risk
\* indicator and no income_stability recommendation.
C29_NoIncomeNotUnstable ==
    (Processed /\ financial_data.incomes = <<>>)
        => /\ "income_instability" \notin RiskTypes
           /\ "income_stability" \notin RecommendationCategories

\* two or more events, every amount 0
AllZero(amounts) ==
    /\ Len(amounts) >= 2
    /\ \A i \in 1..Len(amounts) : amounts[i] = 0

\* C30: for incomes, deposits or expenditures of two or more events whose
\* amounts are all 0 the normalizer returns defined, finite stability and
\* volatility values, and calculate_credit_score returns a complete
\* ScoreResult for the bundle.
C30_ZeroAmountsScored ==
    (/\ returned.op = "calculate_credit_score"
     /\ \E category \in {"incomes", "deposits", "expenditures"} :
            AllZero(financial_data[category]))
        => LET metrics ==
                   process_user_financial_data(
                       credit_factors, returned.user_id,
                       financial_data).financial_metrics
           IN  /\ metrics.income.income_stability # NaN
               /\ metrics.deposits.deposit_consistency # NaN
               /\ "expenditure_volatility" \in DOMAIN metrics.expenditure
                      => metrics.expenditure.expenditure_volatility # NaN
               /\ DOMAIN returned.value = ResultKeys
               /\ "error" \notin DOMAIN returned.value

====
